---- MODULE Spec2Model ----
(***************************************************************************)
(* Verification model of the wheat tiller-density pipeline                 *)
(* (tillerDensityApp/rs_indices.py, deep_learning.py, views.py and         *)
(* legacy_infer/app.py).                                                   *)
(*                                                                         *)
(* Floating-point values are modelled as exact rationals extended with     *)
(* NaN, +Inf and -Inf, with the IEEE-754 rules for the special values.     *)
(* Rounding to float32 and the sign of zero are not modelled.              *)
(***************************************************************************)
EXTENDS Integers, Sequences, FiniteSets, TLC

VARIABLES
    pc,             \* position of the operation under analysis
    clipped_image,  \* prepare_features: the (bands, h, w) array it is given
    feature_out,    \* prepare_features: what it returned or raised
    shape_in,       \* reshape: declared (steps, channels), feature matrix
    shape_out,      \* reshape: tensor built or error raised
    utm_in,         \* utm_epsg_from_polygon: the WGS84 polygon
    utm_out,        \* utm_epsg_from_polygon: EPSG code or error
    cog_in,         \* create_outputRaster_COG: array, transform, CRSs
    cog_out,        \* create_outputRaster_COG: raster written or error
    req,            \* TillerDensityMap: the request's local variables
    crs_in,         \* match_crs: raster CRS, polygon GeoJSON, polygon EPSG
    crs_out,        \* match_crs: GeoJSON returned or error raised
    clip_in,        \* clip: the raster, the polygon and the entry point
    clip_out,       \* clip: what the entry point returned or raised
    MODEL,          \* deep_learning._MODEL / legacy_infer.app._MODEL
    workers,        \* the request threads of one process
    clock,          \* datetime.now(), in whole seconds
    media,          \* the files under settings.MEDIA_ROOT
    gee,            \* _GEE_READY, _GEE_LAST_ERROR and the calls made so far
    zip_in,         \* fetch_gee_image: the .tif names listed by the ZIP
    zip_out,        \* fetch_gee_image: the band order of the stack
    range_in,       \* serve_media_range: file size and Range header
    range_out       \* serve_media_range: the response

\* the variables of the single-call specifications of the geometry stage
geo == <<crs_in, crs_out, clip_in, clip_out>>

\* the state that concurrent requests of one process share
shared == <<MODEL, workers, clock, media>>

\* the variables of the specifications of Earth Engine readiness, of the
\* band order and of the media endpoint
aux == <<gee, zip_in, zip_out, range_in, range_out>>

vars == <<pc, clipped_image, feature_out, shape_in, shape_out,
          utm_in, utm_out, cog_in, cog_out, req, geo, shared, aux>>

\* Value of a variable that the specification at hand does not use.
Unused == [k |-> "unused"]

GeoUnused ==
    /\ crs_in = Unused /\ crs_out = Unused
    /\ clip_in = Unused /\ clip_out = Unused

AuxUnused ==
    /\ gee = Unused
    /\ zip_in = Unused /\ zip_out = Unused
    /\ range_in = Unused /\ range_out = Unused

SharedUnused ==
    /\ MODEL = Unused /\ workers = Unused
    /\ clock = Unused /\ media = Unused

----------------------------------------------------------------------------
(* Bounds of the model *)

\* largest band value drawn for a pixel of the feature specification
MaxVal == 1
\* the modelled square root is exact to 1/SqrtScale
SqrtScale == 1
\* largest number of rows (pixels) of a feature matrix handed to reshape
MaxSamples == 2
\* centroid longitudes run LonOver degrees past -180 and 180
LonOver == 6
\* largest height and width of a prediction grid handed to the rasterizer
MaxGrid == 2
\* height and width in pixels of the raster a request downloads
RasterH == 2
RasterW == 2

----------------------------------------------------------------------------
(* Extended rational arithmetic standing for numpy float arithmetic *)

Abs(x) == IF x < 0 THEN -x ELSE x
Sign(x) == IF x < 0 THEN -1 ELSE IF x > 0 THEN 1 ELSE 0

RECURSIVE Gcd(_, _)
Gcd(a, b) == IF b = 0 THEN a ELSE Gcd(b, a % b)

NaN == [k |-> "nan", n |-> 0, d |-> 0]
Inf(s) == [k |-> "inf", n |-> s, d |-> 0]
\* the rational n/d in lowest terms, d > 0
Fin(n, d) ==
    LET g == Gcd(Abs(n), Abs(d))
        s == IF d < 0 THEN -1 ELSE 1
    IN  [k |-> "fin", n |-> (s * n) \div g, d |-> (s * d) \div g]
Num(i) == [k |-> "fin", n |-> i, d |-> 1]

isfinite(x) == x.k = "fin"
IsZero(x) == x.k = "fin" /\ x.n = 0
\* sign of a value that is not NaN
SignOf(x) == IF x.k = "inf" THEN x.n ELSE Sign(x.n)

FNeg(x) ==
    CASE x.k = "nan" -> NaN
      [] x.k = "inf" -> Inf(-x.n)
      [] OTHER -> Fin(-x.n, x.d)

FAdd(x, y) ==
    CASE x.k = "nan" \/ y.k = "nan" -> NaN
      [] x.k = "inf" /\ y.k = "inf" -> IF x.n = y.n THEN x ELSE NaN
      [] x.k = "inf" -> x
      [] y.k = "inf" -> y
      [] OTHER -> Fin(x.n * y.d + y.n * x.d, x.d * y.d)

FSub(x, y) == FAdd(x, FNeg(y))

FMul(x, y) ==
    CASE x.k = "nan" \/ y.k = "nan" -> NaN
      [] x.k = "inf" \/ y.k = "inf" ->
            IF IsZero(x) \/ IsZero(y) THEN NaN ELSE Inf(SignOf(x) * SignOf(y))
      [] OTHER -> Fin(x.n * y.n, x.d * y.d)

FDiv(x, y) ==
    CASE x.k = "nan" \/ y.k = "nan" -> NaN
      [] x.k = "inf" /\ y.k = "inf" -> NaN
      [] x.k = "inf" -> Inf(x.n * (IF SignOf(y) < 0 THEN -1 ELSE 1))
      [] y.k = "inf" -> Num(0)
      [] IsZero(y) -> IF IsZero(x) THEN NaN ELSE Inf(SignOf(x))
      [] OTHER -> Fin(x.n * y.d, x.d * y.n)

\* largest r in lo..hi with r*r <= x
RECURSIVE ISqrt(_, _, _)
ISqrt(x, lo, hi) ==
    IF lo >= hi THEN lo
    ELSE LET mid == (lo + hi + 1) \div 2
         IN  IF mid * mid <= x THEN ISqrt(x, mid, hi) ELSE ISqrt(x, lo, mid - 1)

\* np.sqrt: NaN for a negative argument, else the root to 1/SqrtScale
FSqrt(x) ==
    CASE x.k = "nan" -> NaN
      [] x.k = "inf" -> IF x.n > 0 THEN x ELSE NaN
      [] x.n < 0 -> NaN
      [] OTHER ->
            LET r == x.n * x.d * SqrtScale * SqrtScale
            IN  Fin(ISqrt(r, 0, 40000), x.d * SqrtScale)

np_square(x) == FMul(x, x)

----------------------------------------------------------------------------
(* rs_indices.py *)

fill_value == -9999

FEATURE_ORDER_21 ==
    <<"B", "G1", "G", "Y", "R", "RE", "NIR", "NDVI", "EVI", "GNDVI", "SAVI",
      "NDRE", "MSAVI", "GCI", "RVI_1", "RGVI", "NDWI", "RVI_2", "SIPI",
      "NEXG", "NGRDI">>

\* _sanitize on one element: a non-finite value becomes the fill value
sanitize(x, fill) == IF isfinite(x) THEN x ELSE Num(fill)

\* the six bands of one pixel, input order [B, G, R, NIR, SWIR1, SWIR2]
bB(p) == p[1]
bG(p) == p[2]
bR(p) == p[3]
bNIR(p) == p[4]
bSWIR1(p) == p[5]
bSWIR2(p) == p[6]

NDVI(p) == sanitize(FDiv(FSub(bNIR(p), bR(p)), FAdd(bNIR(p), bR(p))), fill_value)

\* the gain of evi_calculation, which indices_calculator does not call
EVI_G == Fin(5, 2)
evi_calculation(nir, red, blue) ==
    FMul(EVI_G,
         FDiv(FSub(nir, red),
              FAdd(FSub(FAdd(nir, FMul(Num(6), red)), FMul(Fin(15, 2), blue)),
                   Num(1))))

EVI(p) ==
    sanitize(
        FDiv(FSub(bNIR(p), bR(p)),
             FAdd(FSub(FAdd(bNIR(p), FMul(Num(6), bR(p))),
                       FMul(Fin(15, 2), bB(p))),
                  Num(1))),
        fill_value)

GNDVI(p) == sanitize(FDiv(FSub(bNIR(p), bG(p)), FAdd(bNIR(p), bG(p))), fill_value)

L_val == Fin(1, 2)
SAVI(p) ==
    sanitize(
        FMul(FDiv(FSub(bNIR(p), bR(p)), FAdd(FAdd(bNIR(p), bR(p)), L_val)),
             FAdd(Num(1), L_val)),
        fill_value)

NDMI(p) ==
    sanitize(FDiv(FSub(bNIR(p), bSWIR1(p)), FAdd(bNIR(p), bSWIR1(p))), fill_value)

MSAVI(p) ==
    LET t == FAdd(FMul(Num(2), bNIR(p)), Num(1))
    IN  sanitize(
            FMul(Fin(1, 2),
                 FSub(t, FSqrt(FSub(np_square(t),
                                    FMul(Num(8), FSub(bNIR(p), bR(p))))))),
            fill_value)

GCI(p) == sanitize(FSub(FDiv(bNIR(p), bG(p)), Num(1)), fill_value)
RVI_1(p) == sanitize(FDiv(bNIR(p), bR(p)), fill_value)
RGVI(p) == sanitize(FDiv(bR(p), bG(p)), fill_value)
NDWI(p) == sanitize(FDiv(FSub(bG(p), bNIR(p)), FAdd(bG(p), bNIR(p))), fill_value)
RVI_2(p) == sanitize(FDiv(bNIR(p), bG(p)), fill_value)
SIPI(p) == sanitize(FDiv(FSub(bNIR(p), bB(p)), FAdd(bNIR(p), bR(p))), fill_value)
NEXG(p) ==
    sanitize(
        FDiv(FSub(FSub(FMul(Num(2), bG(p)), bR(p)), bB(p)),
             FAdd(FAdd(bG(p), bR(p)), bB(p))),
        fill_value)
NGRDI(p) == sanitize(FDiv(FSub(bG(p), bR(p)), FAdd(bG(p), bR(p))), fill_value)

\* the red-edge slot: NIR times the already sanitized NDVI
NIRv(p) == sanitize(FMul(bNIR(p), NDVI(p)), fill_value)

\* indices_layers[name] for one pixel
LayerValue(name, p) ==
    CASE name = "B" -> sanitize(bB(p), fill_value)
      [] name = "G1" -> sanitize(bSWIR1(p), fill_value)
      [] name = "G" -> sanitize(bG(p), fill_value)
      [] name = "Y" -> sanitize(bSWIR2(p), fill_value)
      [] name = "R" -> sanitize(bR(p), fill_value)
      [] name = "RE" -> NIRv(p)
      [] name = "NIR" -> sanitize(bNIR(p), fill_value)
      [] name = "NDVI" -> NDVI(p)
      [] name = "EVI" -> EVI(p)
      [] name = "GNDVI" -> GNDVI(p)
      [] name = "SAVI" -> SAVI(p)
      [] name = "NDRE" -> NDMI(p)
      [] name = "MSAVI" -> MSAVI(p)
      [] name = "GCI" -> GCI(p)
      [] name = "RVI_1" -> RVI_1(p)
      [] name = "RGVI" -> RGVI(p)
      [] name = "NDWI" -> NDWI(p)
      [] name = "RVI_2" -> RVI_2(p)
      [] name = "SIPI" -> SIPI(p)
      [] name = "NEXG" -> NEXG(p)
      [] name = "NGRDI" -> NGRDI(p)

\* a plausible slip: two assignments to indices_layers exchanged
InsertionOrderDrifted ==
    <<"B", "G", "G1", "Y", "R", "RE", "NIR", "NDVI", "EVI", "GNDVI", "SAVI",
      "NDRE", "MSAVI", "GCI", "RVI_1", "RGVI", "NDWI", "RVI_2", "SIPI",
      "NEXG", "NGRDI">>

\* the order in which indices_calculator assigns the keys of indices_layers
InsertionOrder ==
    <<"B", "G1", "G", "Y", "R", "RE", "NIR", "NDVI", "EVI", "GNDVI", "SAVI",
      "NDRE", "MSAVI", "GCI", "RVI_1", "RGVI", "NDWI", "RVI_2", "SIPI",
      "NEXG", "NGRDI">>

Range(s) == {s[i] : i \in DOMAIN s}

\* input_image is (h, w, bands); the result is the dict (its keys in
\* insertion order, one (h, w) layer per key) or the order-drift error
indices_calculator(input_image, h, w) ==
    LET perPixel ==
            [r \in 1..h |->
                [c \in 1..w |->
                    [name \in Range(InsertionOrder) |->
                        LayerValue(name, input_image[r][c])]]]
    IN  IF InsertionOrder # FEATURE_ORDER_21
        THEN [status |-> "error", keys |-> <<>>, layers |-> <<>>]
        ELSE [status |-> "ok",
              keys |-> InsertionOrder,
              layers |-> [name \in Range(InsertionOrder) |->
                            [r \in 1..h |-> [c \in 1..w |-> perPixel[r][c][name]]]]]

----------------------------------------------------------------------------
(* deep_learning.py: prepare_features *)

FeatErr(kind) ==
    [status |-> "error", kind |-> kind, names |-> <<>>,
     feature_input |-> <<>>, height |-> 0, width |-> 0]

\* np.transpose(clipped_image, (1, 2, 0))
transpose_hwc(img) ==
    [r \in 1..img.height |->
        [c \in 1..img.width |-> [b \in 1..img.bands |-> img.data[b][r][c]]]]

\* img = [bands, height, width, data], data[b][r][c]
prepare_features(img) ==
    IF img.bands # 6 THEN FeatErr("band_count")
    ELSE
        LET features_dict ==
                indices_calculator(transpose_hwc(img), img.height, img.width)
        IN  IF features_dict.status = "error" THEN FeatErr("feature_order")
            ELSE IF features_dict.keys # FEATURE_ORDER_21
            THEN FeatErr("feature_order")
            ELSE
                [status |-> "ok", kind |-> "none",
                 names |-> features_dict.keys,
                 feature_input |->
                    [k \in 1..(img.height * img.width) |->
                        [j \in 1..Len(FEATURE_ORDER_21) |->
                            features_dict.layers[FEATURE_ORDER_21[j]]
                                [((k - 1) \div img.width) + 1]
                                [((k - 1) % img.width) + 1]]],
                 height |-> img.height, width |-> img.width]

----------------------------------------------------------------------------
(* Specification SpecFeat: prepare_features on every small one-pixel grid *)

PixelValues == {Num(i) : i \in -1..MaxVal}
BandCounts == {5, 6, 7}

\* every one-pixel grid of n bands
FeatImages(n) ==
    {[bands |-> n, height |-> 1, width |-> 1,
      data |-> [b \in 1..n |-> <<<<v[b]>>>>]] : v \in [1..n -> PixelValues]}

InitFeat ==
    /\ pc = "call"
    /\ AuxUnused
    /\ \E n \in BandCounts : clipped_image \in FeatImages(n)
    /\ feature_out = Unused
    /\ shape_in = Unused /\ shape_out = Unused
    /\ utm_in = Unused /\ utm_out = Unused
    /\ cog_in = Unused /\ cog_out = Unused
    /\ req = Unused
    /\ GeoUnused /\ SharedUnused

PrepareFeatures ==
    /\ pc = "call"
    /\ feature_out' = prepare_features(clipped_image)
    /\ pc' = "done"
    /\ UNCHANGED <<clipped_image, shape_in, shape_out, utm_in, utm_out,
                   cog_in, cog_out, req, geo, shared, aux>>

NextFeat == PrepareFeatures

SpecFeat == InitFeat /\ [][NextFeat]_vars

----------------------------------------------------------------------------
(* Claims on the feature synthesizer *)

\* the pixel of row k of the feature matrix, as (h, w, bands) input
PixelOfRow(img, k) ==
    [b \in 1..img.bands |->
        img.data[b][((k - 1) \div img.width) + 1][((k - 1) % img.width) + 1]]

\* the 6 raw slots of the canonical order and the input band each one holds
RawSlotBand == [B |-> 1, G1 |-> 5, G |-> 2, Y |-> 6, R |-> 3, NIR |-> 4]

\* C1: a 6-band grid yields one row per pixel with exactly 21 columns in the
\* canonical order B, G1, G, Y, R, RE, NIR, NDVI, ... NGRDI (the raw slots
\* hold the bands Blue, SWIR1, Green, SWIR2, Red, NIR; every other slot holds
\* the index of that name); any other band count is a band-count error and
\* no matrix is returned.
Thm_C1_CanonicalColumns ==
    pc = "done" =>
        IF clipped_image.bands = 6
        THEN /\ feature_out.status = "ok"
             /\ feature_out.names =
                  <<"B", "G1", "G", "Y", "R", "RE", "NIR", "NDVI", "EVI",
                    "GNDVI", "SAVI", "NDRE", "MSAVI", "GCI", "RVI_1", "RGVI",
                    "NDWI", "RVI_2", "SIPI", "NEXG", "NGRDI">>
             /\ Len(feature_out.feature_input) =
                  clipped_image.height * clipped_image.width
             /\ \A k \in DOMAIN feature_out.feature_input :
                  LET row == feature_out.feature_input[k]
                      p == PixelOfRow(clipped_image, k)
                  IN  /\ Len(row) = 21
                      /\ \A j \in 1..21 :
                            LET name == feature_out.names[j]
                            IN  IF name \in DOMAIN RawSlotBand
                                THEN row[j] = p[RawSlotBand[name]]
                                ELSE row[j] = LayerValue(name, p)
        ELSE /\ feature_out.status = "error"
             /\ feature_out.kind = "band_count"
             /\ feature_out.feature_input = <<>>

\* a 6-band pixel whose six bands are not all equal went through
Wit_C1_CanonicalColumns ==
    /\ pc = "done"
    /\ clipped_image.bands = 6
    /\ feature_out.status = "ok"
    /\ PixelOfRow(clipped_image, 1)[1] # PixelOfRow(clipped_image, 1)[5]
    /\ PixelOfRow(clipped_image, 1)[2] # PixelOfRow(clipped_image, 1)[6]

\* the denominator of the division in each feature that has one
Denominator(name, p) ==
    CASE name \in {"NDVI", "RE", "SIPI"} -> FAdd(bNIR(p), bR(p))
      [] name = "EVI" ->
            FAdd(FSub(FAdd(bNIR(p), FMul(Num(6), bR(p))),
                      FMul(Fin(15, 2), bB(p))), Num(1))
      [] name \in {"GNDVI", "NDWI"} -> FAdd(bNIR(p), bG(p))
      [] name = "SAVI" -> FAdd(FAdd(bNIR(p), bR(p)), Fin(1, 2))
      [] name = "NDRE" -> FAdd(bNIR(p), bSWIR1(p))
      [] name \in {"GCI", "RGVI", "RVI_2"} -> bG(p)
      [] name = "RVI_1" -> bR(p)
      [] name = "NEXG" -> FAdd(FAdd(bG(p), bR(p)), bB(p))
      [] name = "NGRDI" -> FAdd(bG(p), bR(p))

DividingFeatures ==
    {"NDVI", "RE", "SIPI", "EVI", "GNDVI", "NDWI", "SAVI", "NDRE", "GCI",
     "RGVI", "RVI_2", "RVI_1", "NEXG", "NGRDI"}

\* C2: in the returned matrix every feature built on a division holds the
\* fill sentinel -9999 where its denominator is zero, and no entry is NaN
\* or Inf.
Cex_C2_ZeroDenominatorFill ==
    (pc = "done" /\ feature_out.status = "ok") =>
        \A k \in DOMAIN feature_out.feature_input :
            LET row == feature_out.feature_input[k]
                p == PixelOfRow(clipped_image, k)
            IN  \A j \in 1..Len(row) :
                    /\ isfinite(row[j])
                    /\ (/\ FEATURE_ORDER_21[j] \in DividingFeatures
                        /\ IsZero(Denominator(FEATURE_ORDER_21[j], p)))
                       => row[j] = Num(-9999)

\* C3: where the EVI denominator is not zero the EVI slot holds
\* 2.5 * (NIR - R) / (NIR + 6 R - 7.5 B + 1).
Cex_C3_EviGain ==
    (pc = "done" /\ feature_out.status = "ok") =>
        \A k \in DOMAIN feature_out.feature_input :
            LET row == feature_out.feature_input[k]
                p == PixelOfRow(clipped_image, k)
            IN  ~IsZero(Denominator("EVI", p)) =>
                    row[9] = evi_calculation(bNIR(p), bR(p), bB(p))

----------------------------------------------------------------------------
(* Input adapter: deep_learning.py predict_density (local path) and         *)
(* legacy_infer/app.py reshape_for_model                                    *)

ShapeOk(tensor, convention) ==
    [status |-> "ok", kind |-> "none", convention |-> convention,
     tensor |-> tensor, expected |-> <<>>, provided |-> 0]

\* ValueError(f"Unsupported model input shape: {model_input_shape}")
ShapeUnsupported(shape) ==
    [status |-> "error", kind |-> "unsupported_input_shape", convention |-> 0,
     tensor |-> <<>>, expected |-> shape, provided |-> 0]

\* ValueError(f"Model expects ({steps}, {channels}) but provided feature[s]
\* shape is ({num_features}).")
ShapeMismatch(steps, channels, num_features) ==
    [status |-> "error", kind |-> "shape_mismatch", convention |-> 0,
     tensor |-> <<>>, expected |-> <<steps, channels>>,
     provided |-> num_features]

\* X.reshape(num_samples, num_features, 1)
reshape_steps(X, num_samples, num_features) ==
    [i \in 1..num_samples |-> [st \in 1..num_features |-> <<X[i][st]>>]]

\* X.reshape(num_samples, 1, num_features)
reshape_channels(X, num_samples, num_features) ==
    [i \in 1..num_samples |-> <<[c \in 1..num_features |-> X[i][c]]>>]

\* np.repeat(t, reps, axis=1) of a (num_samples, 1, channels) tensor
np_repeat_steps(t, reps) ==
    [i \in DOMAIN t |-> [st \in 1..reps |-> t[i][1]]]

\* model.input_shape is a shape or a list of shapes
FirstShape(model_input_shape) ==
    IF model_input_shape.is_list THEN model_input_shape.shapes[1]
    ELSE model_input_shape.shape

NumFeatures(X) == Len(X[1])

\* a plausible slip: the legacy branch not guarded by num_features == 6
adapt_input_unguarded(X, model_input_shape) ==
    LET shape == FirstShape(model_input_shape)
        num_samples == Len(X)
        num_features == NumFeatures(X)
    IN  IF shape = <<>> \/ Len(shape) # 3 THEN ShapeUnsupported(shape)
        ELSE IF shape[2] = num_features /\ shape[3] = 1
        THEN ShapeOk(reshape_steps(X, num_samples, num_features), 1)
        ELSE IF shape[2] = 1 /\ shape[3] = num_features
        THEN ShapeOk(reshape_channels(X, num_samples, num_features), 2)
        ELSE IF shape[2] = 4 /\ shape[3] = 6
        THEN ShapeOk(np_repeat_steps(
                        reshape_channels(X, num_samples, num_features), 4), 3)
        ELSE ShapeMismatch(shape[2], shape[3], num_features)

\* predict_density, local path: the shape selection on the scaled matrix.
\* A shape is <<batch, steps, channels>>; <<>> stands for None.
adapt_input(X, model_input_shape) ==
    LET shape == FirstShape(model_input_shape)
        num_samples == Len(X)
        num_features == NumFeatures(X)
    IN  IF shape = <<>> \/ Len(shape) # 3 THEN ShapeUnsupported(shape)
        ELSE
            LET expected_steps == shape[2]
                expected_channels == shape[3]
            IN  IF expected_steps = num_features /\ expected_channels = 1
                THEN ShapeOk(reshape_steps(X, num_samples, num_features), 1)
                ELSE IF expected_steps = 1 /\ expected_channels = num_features
                THEN ShapeOk(reshape_channels(X, num_samples, num_features), 2)
                ELSE IF /\ expected_steps = 4
                        /\ expected_channels = 6
                        /\ num_features = 6
                THEN ShapeOk(np_repeat_steps(
                                reshape_channels(X, num_samples, 6), 4), 3)
                ELSE ShapeMismatch(expected_steps, expected_channels,
                                   num_features)

\* legacy service: reshape_for_model(feature_input, model)
reshape_for_model(feature_input, model_input_shape) ==
    LET shape == FirstShape(model_input_shape)
        num_samples == Len(feature_input)
        num_features == NumFeatures(feature_input)
    IN  IF shape = <<>> \/ Len(shape) # 3 THEN ShapeUnsupported(shape)
        ELSE
            LET expected_steps == shape[2]
                expected_channels == shape[3]
            IN  IF expected_steps = num_features /\ expected_channels = 1
                THEN ShapeOk(reshape_steps(feature_input, num_samples,
                                           num_features), 1)
                ELSE IF expected_steps = 1 /\ expected_channels = num_features
                THEN ShapeOk(reshape_channels(feature_input, num_samples,
                                              num_features), 2)
                ELSE IF /\ expected_steps = 4
                        /\ expected_channels = 6
                        /\ num_features = 6
                THEN ShapeOk(np_repeat_steps(
                                reshape_channels(feature_input, num_samples, 6),
                                4), 3)
                ELSE ShapeMismatch(expected_steps, expected_channels,
                                   num_features)

----------------------------------------------------------------------------
(* Specification SpecShape: both shape selections on small matrices *)

\* steps and channels a model may declare, feature counts a caller may send
DeclaredDims == {1, 2, 4, 6, 21}
FeatureCounts == {1, 6, 21}

\* a matrix whose entries are all different: entry (i, j) is 100 i + j
TaggedMatrix(n, f) == [i \in 1..n |-> [j \in 1..f |-> 100 * i + j]]

DeclaredShapes ==
    {<<>>}
    \cup {<<"None", st>> : st \in DeclaredDims}
    \cup {<<"None", st, ch>> : st \in DeclaredDims, ch \in DeclaredDims}

ModelInputShapes ==
    {[is_list |-> FALSE, shape |-> sh, shapes |-> <<>>] : sh \in DeclaredShapes}
    \cup {[is_list |-> TRUE, shape |-> <<>>, shapes |-> <<sh>>] :
            sh \in DeclaredShapes}

InitShape ==
    /\ pc = "call"
    /\ AuxUnused
    /\ shape_in \in
        {[impl |-> impl, model_input_shape |-> m,
          feature_input |-> TaggedMatrix(n, f)] :
            impl \in {"predict_density", "reshape_for_model"},
            m \in ModelInputShapes, n \in 1..MaxSamples, f \in FeatureCounts}
    /\ shape_out = Unused
    /\ clipped_image = Unused /\ feature_out = Unused
    /\ utm_in = Unused /\ utm_out = Unused
    /\ cog_in = Unused /\ cog_out = Unused
    /\ req = Unused
    /\ GeoUnused /\ SharedUnused

AdaptInput ==
    /\ pc = "call"
    /\ shape_in.impl = "predict_density"
    /\ shape_out' = adapt_input(shape_in.feature_input, shape_in.model_input_shape)
    /\ pc' = "done"
    /\ UNCHANGED <<clipped_image, feature_out, shape_in, utm_in, utm_out,
                   cog_in, cog_out, req, geo, shared, aux>>

ReshapeForModel ==
    /\ pc = "call"
    /\ shape_in.impl = "reshape_for_model"
    /\ shape_out' = reshape_for_model(shape_in.feature_input,
                                      shape_in.model_input_shape)
    /\ pc' = "done"
    /\ UNCHANGED <<clipped_image, feature_out, shape_in, utm_in, utm_out,
                   cog_in, cog_out, req, geo, shared, aux>>

NextShape == AdaptInput \/ ReshapeForModel

SpecShape == InitShape /\ [][NextShape]_vars

----------------------------------------------------------------------------
(* Claims on the input adapter *)

DeclaredShape == FirstShape(shape_in.model_input_shape)
ShapeCallDone == pc = "done" /\ shape_in # Unused /\ Len(DeclaredShape) = 3

\* the tensor of each convention, written out element by element
IsStepsTensor(t, X) ==
    /\ DOMAIN t = DOMAIN X
    /\ \A i \in DOMAIN X :
        /\ Len(t[i]) = Len(X[i])
        /\ \A st \in DOMAIN X[i] : t[i][st] = <<X[i][st]>>
IsChannelsTensor(t, X) ==
    /\ DOMAIN t = DOMAIN X
    /\ \A i \in DOMAIN X : t[i] = <<X[i]>>
IsRepeatedTensor(t, X) ==
    /\ DOMAIN t = DOMAIN X
    /\ \A i \in DOMAIN X :
        /\ Len(t[i]) = 4
        /\ \A st \in 1..4 : t[i][st] = X[i]

\* C4 as amended: with F the number of columns of the matrix provided, the
\* selection succeeds exactly for declared (steps, channels) = (F, 1), then
\* (1, F), then (4, 6) when F = 6, first match winning (for the pipeline's
\* 21 columns: (21, 1) and (1, 21)); every other declared pair raises an
\* error naming the expected (steps, channels) and the provided count F.
Thm_C4_ShapeSelection ==
    ShapeCallDone =>
        LET steps == DeclaredShape[2]
            channels == DeclaredShape[3]
            X == shape_in.feature_input
            F == Len(X[1])
        IN  IF steps = F /\ channels = 1
            THEN shape_out.status = "ok" /\ IsStepsTensor(shape_out.tensor, X)
            ELSE IF steps = 1 /\ channels = F
            THEN shape_out.status = "ok" /\ IsChannelsTensor(shape_out.tensor, X)
            ELSE IF steps = 4 /\ channels = 6 /\ F = 6
            THEN shape_out.status = "ok" /\ IsRepeatedTensor(shape_out.tensor, X)
            ELSE /\ shape_out.status = "error"
                 /\ shape_out.kind = "shape_mismatch"
                 /\ shape_out.expected = <<steps, channels>>
                 /\ shape_out.provided = F
                 /\ shape_out.tensor = <<>>

\* a 6-column matrix met a model declaring (4, 6) and was repeated 4 times
Wit_C4_ShapeSelection ==
    /\ ShapeCallDone
    /\ DeclaredShape = <<"None", 4, 6>>
    /\ Len(shape_in.feature_input[1]) = 6
    /\ shape_out.status = "ok"
    /\ shape_out.convention = 3

\* C4 as stated: success exactly for (21, 1), (1, 21) and (4, 6) with 6
\* features; every other declared shape is an error naming both shapes.
Cex_C4_ShapeSelection ==
    ShapeCallDone =>
        LET steps == DeclaredShape[2]
            channels == DeclaredShape[3]
            F == Len(shape_in.feature_input[1])
        IN  IF \/ (steps = 21 /\ channels = 1)
               \/ (steps = 1 /\ channels = 21)
               \/ (steps = 4 /\ channels = 6 /\ F = 6)
            THEN shape_out.status = "ok"
            ELSE /\ shape_out.status = "error"
                 /\ shape_out.expected = <<steps, channels>>
                 /\ shape_out.provided = F

----------------------------------------------------------------------------
(* views.py: utm_epsg_from_polygon *)

(* A polygon is seen through what shapely reports of it: is_valid, whether  *)
(* buffer(0) returns a valid shape, and the centroid (lon, lat) of the      *)
(* shape the function goes on with, in whole degrees.                       *)

Max2(a, b) == IF a > b THEN a ELSE b
Min2(a, b) == IF a < b THEN a ELSE b

UtmOk(epsg) == [status |-> "ok", kind |-> "none", epsg |-> epsg]
UtmErr(kind) == [status |-> "error", kind |-> kind, epsg |-> 0]

\* a plausible slip: the zone is not clamped to [1, 60]
utm_epsg_unclamped(poly) ==
    IF ~poly.is_valid /\ ~poly.buffer_valid THEN UtmErr("invalid_geometry")
    ELSE IF poly.lat > 84 \/ poly.lat < -80 THEN UtmErr("utm_undefined")
    ELSE LET zone == ((poly.lon + 180) \div 6) + 1
         IN  UtmOk(IF poly.lat >= 0 THEN 32600 + zone ELSE 32700 + zone)

\* a plausible slip: the northern limit tested with >= instead of >
utm_epsg_limit_slip(poly) ==
    IF ~poly.is_valid /\ ~poly.buffer_valid THEN UtmErr("invalid_geometry")
    ELSE IF poly.lat >= 84 \/ poly.lat < -80 THEN UtmErr("utm_undefined")
    ELSE LET zone == Max2(1, Min2(((poly.lon + 180) \div 6) + 1, 60))
         IN  UtmOk(IF poly.lat >= 0 THEN 32600 + zone ELSE 32700 + zone)

utm_epsg_from_polygon(poly) ==
    IF ~poly.is_valid /\ ~poly.buffer_valid
    THEN UtmErr("invalid_geometry")
    ELSE
        LET lon == poly.lon
            lat == poly.lat
        IN  IF lat > 84 \/ lat < -80 THEN UtmErr("utm_undefined")
            ELSE
                LET zone0 == ((lon + 180) \div 6) + 1
                    zone == Max2(1, Min2(zone0, 60))
                    epsg == IF lat >= 0 THEN 32600 + zone ELSE 32700 + zone
                IN  UtmOk(epsg)

----------------------------------------------------------------------------
(* Specification SpecUtm: utm_epsg_from_polygon on every whole-degree       *)
(* centroid                                                                 *)

\* latitudes around the limits -80 and 84, the equator and the poles
Latitudes == (-90..-78) \cup (-2..2) \cup (82..90)

\* a valid polygon stays valid under buffer(0)
UtmPolygons(lons, lats) ==
    {[is_valid |-> vb[1], buffer_valid |-> vb[2], lon |-> lon, lat |-> lat] :
        vb \in {<<TRUE, TRUE>>, <<FALSE, TRUE>>, <<FALSE, FALSE>>},
        lon \in lons, lat \in lats}

InitUtm ==
    /\ pc = "call"
    /\ AuxUnused
    /\ utm_in \in UtmPolygons((-180 - LonOver)..(180 + LonOver), Latitudes)
    /\ utm_out = Unused
    /\ clipped_image = Unused /\ feature_out = Unused
    /\ shape_in = Unused /\ shape_out = Unused
    /\ cog_in = Unused /\ cog_out = Unused
    /\ req = Unused
    /\ GeoUnused /\ SharedUnused

UtmEpsgFromPolygon ==
    /\ pc = "call"
    /\ utm_out' = utm_epsg_from_polygon(utm_in)
    /\ pc' = "done"
    /\ UNCHANGED <<clipped_image, feature_out, shape_in, shape_out, utm_in,
                   cog_in, cog_out, req, geo, shared, aux>>

NextUtm == UtmEpsgFromPolygon

SpecUtm == InitUtm /\ [][NextUtm]_vars

----------------------------------------------------------------------------
(* Claims on utm_epsg_from_polygon *)

\* the function got as far as the centroid: the polygon is valid or repaired
UtmCentroidTaken ==
    pc = "done" /\ utm_in # Unused /\ (utm_in.is_valid \/ utm_in.buffer_valid)

\* C9: for a centroid with latitude in [-80, 84] the result is 32600 + zone
\* for lat >= 0 and 32700 + zone otherwise, zone = floor((lon + 180) / 6) + 1
\* clamped to [1, 60]; so it lies in 32601..32660 (north) or 32701..32760
\* (south), also at lon = -180 and lon = 180.
Thm_C9_UtmZone ==
    (UtmCentroidTaken /\ utm_in.lat >= -80 /\ utm_in.lat <= 84) =>
        LET z == ((utm_in.lon + 180) \div 6) + 1
            zone == IF z < 1 THEN 1 ELSE IF z > 60 THEN 60 ELSE z
        IN  /\ utm_out.status = "ok"
            /\ utm_in.lat >= 0 =>
                /\ utm_out.epsg = 32600 + zone
                /\ utm_out.epsg \in 32601..32660
            /\ utm_in.lat < 0 =>
                /\ utm_out.epsg = 32700 + zone
                /\ utm_out.epsg \in 32701..32760

\* the centroid on the antimeridian, where the unclamped zone would be 61
Wit_C9_UtmZone ==
    /\ UtmCentroidTaken
    /\ utm_in.lon = 180
    /\ utm_in.lat = 0
    /\ utm_out.epsg = 32660

\* C10: once the centroid is taken the function raises exactly when its
\* latitude is outside [-80, 84], it returns a code for every latitude
\* inside, and a failure returns no EPSG code.
Thm_C10_UtmLatitudeError ==
    UtmCentroidTaken =>
        /\ utm_out.status = "error" <=> (utm_in.lat > 84 \/ utm_in.lat < -80)
        /\ utm_out.status = "error" =>
            utm_out.kind = "utm_undefined" /\ utm_out.epsg = 0
        /\ utm_out.status = "ok" => utm_out.epsg # 0

\* latitude 85 was refused
Wit_C10_UtmLatitudeError ==
    /\ UtmCentroidTaken
    /\ utm_in.lat = 85
    /\ utm_out.status = "error"
    /\ utm_out.kind = "utm_undefined"

----------------------------------------------------------------------------
(* views.py: create_outputRaster_COG *)

(* An affine transform is north-up: x = c + a * col, y = f + e * row, with  *)
(* a > 0 > e; its coefficients and all coordinates are rationals.  The two  *)
(* rasterio calls are modelled by their contract: calculate_default_        *)
(* transform returns, for equal source and target CRS, the transform of the *)
(* given bounds and size; reproject with nearest resampling gives each      *)
(* destination pixel the source pixel its centre falls in, or the           *)
(* destination nodata when there is none or when that pixel is the source   *)
(* nodata.  Pixel values after a change of CRS are not modelled.            *)

nodata_value == -99999

\* floor of a finite rational
FFloor(x) == x.n \div x.d

\* transform * (col, row)
affine_apply(t, col, row) ==
    [x |-> FAdd(t.c, FMul(t.a, col)), y |-> FAdd(t.f, FMul(t.e, row))]

\* rasterio.transform.from_bounds
from_bounds(left, bottom, right, top, width, height) ==
    [a |-> FDiv(FSub(right, left), Num(width)),
     e |-> FNeg(FDiv(FSub(top, bottom), Num(height))),
     c |-> left, f |-> top]

\* calculate_default_transform for src_crs = dst_crs
calculate_default_transform_same(width, height, left, bottom, right, top) ==
    [transform |-> from_bounds(left, bottom, right, top, width, height),
     width |-> width, height |-> height]

\* the 1-based source cell holding the centre of destination cell (r, c);
\* row or col is 0 when the centre lies outside the source array
source_cell(src_t, dst_t, h, w, r, c) ==
    LET half == Fin(1, 2)
        pt == affine_apply(dst_t, FSub(Num(c), half), FSub(Num(r), half))
        col0 == FFloor(FDiv(FSub(pt.x, src_t.c), src_t.a))
        row0 == FFloor(FDiv(FSub(pt.y, src_t.f), src_t.e))
    IN  IF col0 >= 0 /\ col0 < w /\ row0 >= 0 /\ row0 < h
        THEN [row |-> row0 + 1, col |-> col0 + 1]
        ELSE [row |-> 0, col |-> 0]

\* reproject(..., resampling=nearest, init_dest_nodata=True), same CRS
reproject_nearest(source, src_t, dst_t, dst_h, dst_w, src_nodata, dst_nodata) ==
    LET h == Len(source)
        w == Len(source[1])
    IN  [r \in 1..dst_h |->
            [c \in 1..dst_w |->
                LET cell == source_cell(src_t, dst_t, h, w, r, c)
                IN  IF cell.row = 0 THEN dst_nodata
                    ELSE IF source[cell.row][cell.col] = src_nodata
                    THEN dst_nodata
                    ELSE source[cell.row][cell.col]]]

\* a plausible slip: the array's two dimensions exchanged
clipped_bounds_swapped(t, arr) ==
    LET lt == affine_apply(t, Num(0), Num(0))
        rb == affine_apply(t, Num(Len(arr)), Num(Len(arr[1])))
    IN  [left |-> lt.x, top |-> lt.y, right |-> rb.x, bottom |-> rb.y]

\* left, top = transform * (0, 0); right, bottom = transform * (w, h)
clipped_bounds(t, arr) ==
    LET lt == affine_apply(t, Num(0), Num(0))
        rb == affine_apply(t, Num(Len(arr[1])), Num(Len(arr)))
    IN  [left |-> lt.x, top |-> lt.y, right |-> rb.x, bottom |-> rb.y]

\* the raster written to output_path
create_outputRaster_COG(raster_profile, transform, predictArray, target_crs) ==
    LET b == clipped_bounds(transform, predictArray)
        same == raster_profile.crs = target_crs
        dst == calculate_default_transform_same(
                    Len(predictArray[1]), Len(predictArray),
                    b.left, b.bottom, b.right, b.top)
    IN  IF same
        THEN [status |-> "ok", driver |-> "COG", crs |-> target_crs,
              count |-> 1, dtype |-> "float32", compress |-> "LZW",
              nodata |-> nodata_value, reprojected |-> FALSE,
              transform |-> dst.transform,
              width |-> dst.width, height |-> dst.height,
              data |-> reproject_nearest(predictArray, transform,
                          dst.transform, dst.height, dst.width,
                          nodata_value, nodata_value)]
        ELSE [status |-> "ok", driver |-> "COG", crs |-> target_crs,
              count |-> 1, dtype |-> "float32", compress |-> "LZW",
              nodata |-> nodata_value, reprojected |-> TRUE,
              transform |-> Unused, width |-> 0, height |-> 0, data |-> <<>>]

----------------------------------------------------------------------------
(* Specification SpecCog: create_outputRaster_COG on small grids *)

GridValues == {nodata_value, 7}

Grids(h, w) == [1..h -> [1..w -> GridValues]]

Transforms ==
    {[a |-> Num(1), e |-> Num(-1), c |-> Num(0), f |-> Num(0)],
     [a |-> Num(30), e |-> Num(-30), c |-> Num(600), f |-> Num(900)],
     [a |-> Num(2), e |-> Num(-1), c |-> Num(-3), f |-> Num(5)],
     [a |-> Fin(1, 2), e |-> Fin(-3, 2), c |-> Fin(1, 4), f |-> Num(-7)]}

InitCog ==
    /\ pc = "call"
    /\ AuxUnused
    /\ \E h \in 1..MaxGrid, w \in 1..MaxGrid :
        cog_in \in
            {[raster_profile |-> [crs |-> "EPSG:32614"], transform |-> t,
              predictArray |-> g, target_crs |-> crs] :
                t \in Transforms, g \in Grids(h, w),
                crs \in {"EPSG:32614", "EPSG:3857"}}
    /\ cog_out = Unused
    /\ clipped_image = Unused /\ feature_out = Unused
    /\ shape_in = Unused /\ shape_out = Unused
    /\ utm_in = Unused /\ utm_out = Unused
    /\ req = Unused
    /\ GeoUnused /\ SharedUnused

CreateOutputRasterCog ==
    /\ pc = "call"
    /\ cog_out' = create_outputRaster_COG(cog_in.raster_profile,
                      cog_in.transform, cog_in.predictArray, cog_in.target_crs)
    /\ pc' = "done"
    /\ UNCHANGED <<clipped_image, feature_out, shape_in, shape_out, utm_in,
                   utm_out, cog_in, req, geo, shared, aux>>

NextCog == CreateOutputRasterCog

SpecCog == InitCog /\ [][NextCog]_vars

----------------------------------------------------------------------------
(* Claims on create_outputRaster_COG *)

CogSameCrsDone ==
    pc = "done" /\ cog_in # Unused /\ cog_in.target_crs = cog_in.raster_profile.crs

\* C8: with target CRS equal to source CRS the output raster has the size,
\* the transform and the pixel values of the input grid; an input pixel equal
\* to the nodata sentinel -99999 is nodata in the output, and a destination
\* pixel whose centre no source pixel covers holds the pre-filled nodata.
Thm_C8_IdentityRasterize ==
    CogSameCrsDone =>
        LET src == cog_in.predictArray
            h == Len(src)
            w == Len(src[1])
        IN  /\ cog_out.status = "ok"
            /\ cog_out.nodata = -99999
            /\ cog_out.height = h /\ cog_out.width = w
            /\ cog_out.transform = cog_in.transform
            /\ \A r \in 1..cog_out.height : \A c \in 1..cog_out.width :
                /\ r <= h /\ c <= w
                /\ cog_out.data[r][c] = src[r][c]
                /\ src[r][c] = -99999 => cog_out.data[r][c] = cog_out.nodata
                /\ source_cell(cog_in.transform, cog_out.transform, h, w, r, c).row = 0
                    => cog_out.data[r][c] = cog_out.nodata

\* a grid that is not square and holds both a nodata and a data pixel
Wit_C8_IdentityRasterize ==
    /\ CogSameCrsDone
    /\ Len(cog_in.predictArray) # Len(cog_in.predictArray[1])
    /\ \E r \in DOMAIN cog_out.data : \E c \in DOMAIN cog_out.data[r] :
        cog_out.data[r][c] = -99999
    /\ \E r \in DOMAIN cog_out.data : \E c \in DOMAIN cog_out.data[r] :
        cog_out.data[r][c] = 7

----------------------------------------------------------------------------
(* views.py: match_crs, the reconciliation of the polygon with a CRS *)

(* A GeoJSON geometry is its type, its coordinates, and what shapely finds  *)
(* of the shape built from it: is_valid, and whether buffer(0) leaves a     *)
(* valid shape.  The coordinates are a ring of float pairs, finite or nan,  *)
(* and the operations (buffer, reprojection, rounding) applied to it.       *)
(* A CRS is its EPSG code.                                                  *)

GeometryTypes == {"Polygon", "MultiPolygon", "Point", "LineString", "Feature"}

\* the types shapely.geometry.shape builds a geometry from
ShapelyTypes == {"Polygon", "MultiPolygon", "Point", "LineString"}

KnownEpsg == {4326, 3857, 32614, 32615}

Ring(xy) == [i \in DOMAIN xy |-> <<Num(xy[i][1]), Num(xy[i][2])>>]

Triangle == Ring(<<<<0, 0>>, <<2, 0>>, <<2, 2>>, <<0, 0>>>>)
BowTie == Ring(<<<<0, 0>>, <<2, 2>>, <<2, 0>>, <<0, 2>>, <<0, 0>>>>)
NanRing == [Triangle EXCEPT ![2] = <<NaN, Num(0)>>]

\* all(np.isfinite(coord) for coord in coord_pair), over every pair
CoordsFinite(coordinates) ==
    \A i \in DOMAIN coordinates.ring : \A j \in DOMAIN coordinates.ring[i] :
        isfinite(coordinates.ring[i][j])

GeoJson(type, ring, is_valid, buffer_valid) ==
    [type |-> type, coordinates |-> [ring |-> ring, ops |-> <<>>],
     is_valid |-> is_valid, buffer_valid |-> buffer_valid]

\* polygon_shape.buffer(0)
buffer0(g) ==
    [g EXCEPT !.coordinates.ops = Append(@, <<"buffer0">>),
              !.is_valid = g.buffer_valid]

\* rasterio.warp.transform_geom(src, dst, geom, precision=6): the geometry
\* in the other CRS; as tells what shapely will find of it
transform_geom(src_crs, dst_crs, geom, as) ==
    [type |-> geom.type,
     coordinates |-> [geom.coordinates EXCEPT
                        !.ops = Append(@, <<"transform", src_crs, dst_crs>>)],
     is_valid |-> as.is_valid, buffer_valid |-> as.buffer_valid]

\* shapely.wkt.loads(shapely.wkt.dumps(shape, rounding_precision=6)); the
\* rounding is taken to keep the shape valid
round6(g) == [g EXCEPT !.coordinates.ops = Append(@, <<"round6">>)]

CrsOk(g) == [status |-> "ok", kind |-> "none", geojson |-> g]
CrsErr(kind) == [status |-> "error", kind |-> kind, geojson |-> Unused]

\* a plausible slip: the polygon goes through the rounding in every case
match_crs_always_rounds(raster_crs, polygon_geojson, polygon_crs_epsg, as) ==
    IF polygon_crs_epsg \notin KnownEpsg THEN CrsErr("crs_error")
    ELSE IF polygon_geojson.type \notin ShapelyTypes
    THEN CrsErr("unknown_geometry_type")
    ELSE IF ~polygon_geojson.is_valid /\ ~polygon_geojson.buffer_valid
    THEN CrsErr("original_invalid")
    ELSE CrsOk(round6(polygon_geojson))

\* a plausible slip: a reprojection that buffer(0) cannot repair is passed on
match_crs_unchecked(raster_crs, polygon_geojson, polygon_crs_epsg, as) ==
    IF polygon_crs_epsg \notin KnownEpsg THEN CrsErr("crs_error")
    ELSE IF polygon_geojson.type \notin ShapelyTypes
    THEN CrsErr("unknown_geometry_type")
    ELSE IF raster_crs # polygon_crs_epsg
    THEN CrsOk(round6(buffer0(transform_geom(polygon_crs_epsg, raster_crs,
                                              polygon_geojson, as))))
    ELSE CrsOk(polygon_geojson)

\* match_crs(raster_crs, polygon_geojson, polygon_crs_epsg)
match_crs(raster_crs, polygon_geojson, polygon_crs_epsg, as) ==
    IF polygon_crs_epsg \notin KnownEpsg
    THEN CrsErr("crs_error")                    \* CRS.from_epsg raises
    ELSE IF polygon_geojson.type \notin ShapelyTypes
    THEN CrsErr("unknown_geometry_type")        \* shape() raises
    ELSE IF ~polygon_geojson.is_valid /\ ~buffer0(polygon_geojson).is_valid
    THEN CrsErr("original_invalid")
    ELSE IF raster_crs # polygon_crs_epsg
    THEN
        LET reprojected == transform_geom(polygon_crs_epsg, raster_crs,
                                          polygon_geojson, as)
        IN  IF reprojected.is_valid
            THEN CrsOk(round6(reprojected))
            ELSE IF ~buffer0(reprojected).is_valid
            THEN CrsErr("transformed_invalid")
            ELSE CrsOk(round6(buffer0(reprojected)))
    ELSE CrsOk(polygon_geojson)

----------------------------------------------------------------------------
(* Specification SpecCrs: one call of match_crs *)

Shapely == [is_valid : BOOLEAN, buffer_valid : BOOLEAN]

\* what shapely finds of a geometry: a triangle is valid, a bow-tie polygon
\* is invalid and repaired by buffer(0), and for a ring that holds a nan
\* every finding is possible
ShapelyOf(type, ring) ==
    IF \E i \in DOMAIN ring : \E j \in DOMAIN ring[i] : ~isfinite(ring[i][j])
    THEN Shapely
    ELSE IF ring = BowTie /\ type \in {"Polygon", "MultiPolygon"}
    THEN {[is_valid |-> FALSE, buffer_valid |-> TRUE]}
    ELSE {[is_valid |-> TRUE, buffer_valid |-> TRUE]}

\* what shapely may find of a geometry after transform_geom: any finding
\* when the CRSs differ and the geometry given is invalid or holds a nan;
\* the reprojection of a valid finite geometry is taken to be valid
Reprojected(raster_crs, polygon_geojson, polygon_crs_epsg) ==
    IF raster_crs # polygon_crs_epsg
        /\ (~polygon_geojson.is_valid
                \/ ~CoordsFinite(polygon_geojson.coordinates))
    THEN Shapely
    ELSE {[is_valid |-> TRUE, buffer_valid |-> TRUE]}

\* the geometries of the given types
GeoJsons(types) ==
    UNION {{GeoJson(t, co, s.is_valid, s.buffer_valid) :
                s \in ShapelyOf(t, co)} :
            t \in types, co \in {Triangle, BowTie, NanRing}}

InitCrs ==
    /\ pc = "call"
    /\ AuxUnused
    /\ \E crs \in {4326, 32614}, g \in GeoJsons(GeometryTypes),
          epsg \in {4326, 32614, 32615, 99999} :
        \E as \in Reprojected(crs, g, epsg) :
            crs_in = [raster_crs |-> crs, polygon_geojson |-> g,
                      polygon_crs_epsg |-> epsg, as |-> as]
    /\ crs_out = Unused
    /\ clip_in = Unused /\ clip_out = Unused
    /\ clipped_image = Unused /\ feature_out = Unused
    /\ shape_in = Unused /\ shape_out = Unused
    /\ utm_in = Unused /\ utm_out = Unused
    /\ cog_in = Unused /\ cog_out = Unused
    /\ req = Unused /\ SharedUnused

MatchCrs ==
    /\ pc = "call"
    /\ crs_out' = match_crs(crs_in.raster_crs, crs_in.polygon_geojson,
                            crs_in.polygon_crs_epsg, crs_in.as)
    /\ pc' = "done"
    /\ UNCHANGED <<clipped_image, feature_out, shape_in, shape_out, utm_in,
                   utm_out, cog_in, cog_out, req, crs_in, clip_in, clip_out,
                   shared, aux>>

NextCrs == MatchCrs

SpecCrs == InitCrs /\ [][NextCrs]_vars

----------------------------------------------------------------------------
(* Claims on match_crs *)

CrsCallDone == pc = "done" /\ crs_out # Unused

\* C11: for every valid polygon whose CRS is the target CRS, match_crs
\* returns without error and the geometry returned is the one it was given,
\* with no coordinate changed.
Thm_C11_SameCrsIdentity ==
    (/\ CrsCallDone
     /\ crs_in.polygon_geojson.type \in {"Polygon", "MultiPolygon"}
     /\ crs_in.polygon_geojson.is_valid
     /\ crs_in.raster_crs = crs_in.polygon_crs_epsg) =>
        /\ crs_out.status = "ok"
        /\ crs_out.geojson = crs_in.polygon_geojson
        /\ crs_out.geojson.coordinates = crs_in.polygon_geojson.coordinates

\* a valid triangle in the raster's CRS went through match_crs
Wit_C11_SameCrsIdentity ==
    /\ CrsCallDone
    /\ crs_in.polygon_geojson.type = "Polygon"
    /\ crs_in.polygon_geojson.is_valid
    /\ crs_in.polygon_geojson.coordinates = [ring |-> Triangle, ops |-> <<>>]
    /\ crs_in.raster_crs = 32614 /\ crs_in.polygon_crs_epsg = 32614
    /\ crs_out.status = "ok"

\* C12: whenever match_crs returns without error the polygon returned is
\* valid, and an invalid input that buffer(0) repairs comes back repaired,
\* with equal CRS as with different CRS.
Cex_C12_ReturnedValid ==
    (CrsCallDone /\ crs_out.status = "ok") =>
        /\ crs_out.geojson.is_valid
        /\ (~crs_in.polygon_geojson.is_valid
                /\ crs_in.raster_crs = crs_in.polygon_crs_epsg) =>
            crs_out.geojson.coordinates =
                buffer0(crs_in.polygon_geojson).coordinates

----------------------------------------------------------------------------
(* views.py: the request pipeline of TillerDensityMap *)

(* The polygon of a request is seen through its footprint on the pixel grid *)
(* of the downloaded raster, which is what rasterio.mask.mask(crop=True)    *)
(* reads of it: the window of rows r0..r1 and columns c0..c1 its bounding   *)
(* box crops to, and the set of cells whose centre lies inside it.  A       *)
(* polygon that misses the raster has overlap = FALSE.                      *)

file_nodata == -9999

Cells(r0, r1, c0, c1) == {<<r, c>> : r \in r0..r1, c \in c0..c1}

\* the polygons whose window is rows r0..r1, columns c0..c1
Footprints(r0, r1, c0, c1) ==
    {[overlap |-> TRUE, r0 |-> r0, r1 |-> r1, c0 |-> c0, c1 |-> c1,
      inside |-> ins] : ins \in SUBSET Cells(r0, r1, c0, c1)}

NoOverlapPolygon ==
    [overlap |-> FALSE, r0 |-> 1, r1 |-> 1, c0 |-> 1, c1 |-> 1, inside |-> {}]

\* every footprint on a raster of h rows and w columns
Polygons(h, w) ==
    UNION {Footprints(v[1], v[2], v[3], v[4]) :
            v \in {x \in (1..h) \X (1..h) \X (1..w) \X (1..w) :
                    x[1] <= x[2] /\ x[3] <= x[4]}}
    \cup {NoOverlapPolygon}

\* the 6-band stacks Earth Engine may deliver, as band vectors per pixel
ScenePixel(scene, r, c) ==
    CASE scene = "ones" -> <<1, 1, 1, 1, 1, 1>>
      [] scene = "zeros" -> <<0, 0, 0, 0, 0, 0>>
      [] scene = "sparse" ->
            IF (r + c) % 2 = 0 THEN <<0, 0, 0, 0, 0, 0>>
            ELSE <<1, 2, 3, 4, 5, 6>>
      [] scene = "ramp" -> <<r, c, r + c, r * c + 1, 0, 1>>

Scenes == {"ones", "zeros", "sparse", "ramp"}

\* stacked: (bands, h, w) float32
SceneStack(scene) ==
    [b \in 1..6 |->
        [r \in 1..RasterH |->
            [c \in 1..RasterW |-> Num(ScenePixel(scene, r, c)[b])]]]

AllZero(stacked) ==
    \A b \in DOMAIN stacked : \A r \in DOMAIN stacked[b] :
        \A c \in DOMAIN stacked[b][r] : IsZero(stacked[b][r][c])

RasterTransform == [a |-> Num(30), e |-> Num(-30), c |-> Num(600), f |-> Num(900)]

\* fetch_gee_image, from the bytes downloaded on: the file it persists
persist_raster(stacked) ==
    [profile |-> [count |-> Len(stacked), dtype |-> "float32",
                  has_nodata |-> TRUE, nodata |-> file_nodata,
                  crs |-> "EPSG:32614",
                  transform |-> RasterTransform,
                  height |-> RasterH, width |-> RasterW],
     data |-> stacked]

\* rasterio.mask.mask(src, [polygon], crop=True) with nodata left to default:
\* the cells of the window outside the polygon are set to fill
mask_crop(src, poly, fill) ==
    [image |->
        [b \in 1..src.profile.count |->
            [r \in 1..(poly.r1 - poly.r0 + 1) |->
                [c \in 1..(poly.c1 - poly.c0 + 1) |->
                    IF <<poly.r0 + r - 1, poly.c0 + c - 1>> \in poly.inside
                    THEN src.data[b][poly.r0 + r - 1][poly.c0 + c - 1]
                    ELSE Num(fill)]]],
     transform |->
        [a |-> src.profile.transform.a, e |-> src.profile.transform.e,
         c |-> FAdd(src.profile.transform.c,
                    FMul(src.profile.transform.a, Num(poly.c0 - 1))),
         f |-> FAdd(src.profile.transform.f,
                    FMul(src.profile.transform.e, Num(poly.r0 - 1)))]]

\* the nodata mask() fills with: the dataset's nodata, or 0 when it has none
mask_fill(src) ==
    IF src.profile.has_nodata THEN src.profile.nodata ELSE 0

\* np.any(clipped_image != 0, axis=0)
valid_mask_of(image) ==
    [r \in DOMAIN image[1] |->
        [c \in DOMAIN image[1][r] |->
            \E b \in DOMAIN image : ~IsZero(image[b][r][c])]]

\* the EPSG code of a dataset's CRS (src.crs, held as its string)
EpsgOf(crs) ==
    CASE crs = "EPSG:4326" -> 4326
      [] crs = "EPSG:3857" -> 3857
      [] crs = "EPSG:32614" -> 32614
      [] crs = "EPSG:32615" -> 32615

StackErr(kind, mask_called) ==
    [status |-> "error", kind |-> kind, mask_called |-> mask_called,
     features |-> Unused, src_profile |-> Unused, clipped_image |-> <<>>,
     clipped_transform |-> Unused, valid_mask |-> <<>>]

\* a plausible slip: a polygon that misses the raster is clipped to the
\* whole raster, every cell filled
mask_and_prepare_uncropped(src, poly, fill, src_profile) ==
    LET whole == [overlap |-> TRUE, r0 |-> 1, r1 |-> src.profile.height,
                  c0 |-> 1, c1 |-> src.profile.width,
                  inside |-> IF poly.overlap THEN poly.inside ELSE {}]
        p == IF poly.overlap THEN poly ELSE whole
        m == mask_crop(src, p, fill)
        img == [bands |-> Len(m.image), height |-> Len(m.image[1]),
                width |-> Len(m.image[1][1]), data |-> m.image]
        feats == prepare_features(img)
    IN  [status |-> feats.status, kind |-> feats.kind,
         mask_called |-> TRUE, features |-> feats,
         src_profile |-> src_profile, clipped_image |-> m.image,
         clipped_transform |-> m.transform,
         valid_mask |-> valid_mask_of(m.image)]

\* the part band_stacker and band_stacker_from_mem share: mask(crop=True)
\* filling with fill, the validity mask, prepare_features; poly is the
\* footprint on the raster of the polygon given to mask
mask_and_prepare(src, poly, fill, src_profile) ==
    IF ~poly.overlap
    THEN StackErr("no_overlap", TRUE)
    ELSE
        LET m == mask_crop(src, poly, fill)
            img == [bands |-> Len(m.image), height |-> Len(m.image[1]),
                    width |-> Len(m.image[1][1]), data |-> m.image]
            feats == prepare_features(img)
        IN  [status |-> feats.status, kind |-> feats.kind,
             mask_called |-> TRUE, features |-> feats,
             src_profile |-> src_profile, clipped_image |-> m.image,
             clipped_transform |-> m.transform,
             valid_mask |-> valid_mask_of(m.image)]

\* band_stacker(raster_path, polygon_geojson, polygon_crs_epsg); env holds
\* what the libraries find: the footprint on the raster of the polygon
\* given to mask, and shapely's finding on the reprojected polygon
band_stacker(src, polygon_geojson, polygon_crs_epsg, env) ==
    LET new_polygon_geojson ==
            match_crs(EpsgOf(src.profile.crs), polygon_geojson, polygon_crs_epsg,
                      env.as)
    IN  IF new_polygon_geojson.status = "error"
        THEN StackErr(new_polygon_geojson.kind, FALSE)
        ELSE mask_and_prepare(src, env.footprint, mask_fill(src), src.profile)

\* a plausible slip: the in-memory dataset is masked with fill 0
band_stacker_from_mem_zero_fill(stacked_array, raster_profile, polygon_geojson, polygon_crs_epsg, env) ==
    LET dataset == [profile |-> raster_profile, data |-> stacked_array]
        new_polygon_geojson ==
            match_crs(EpsgOf(dataset.profile.crs), polygon_geojson, polygon_crs_epsg,
                      env.as)
    IN  IF new_polygon_geojson.status = "error"
        THEN StackErr(new_polygon_geojson.kind, FALSE)
        ELSE mask_and_prepare(dataset, env.footprint, 0, raster_profile)

\* band_stacker_from_mem(stacked_array, raster_profile, polygon_geojson,
\* polygon_crs_epsg): the array is written to a MemoryFile dataset first
band_stacker_from_mem(stacked_array, raster_profile, polygon_geojson, polygon_crs_epsg, env) ==
    LET dataset == [profile |-> raster_profile, data |-> stacked_array]
        new_polygon_geojson ==
            match_crs(EpsgOf(dataset.profile.crs), polygon_geojson, polygon_crs_epsg,
                      env.as)
    IN  IF new_polygon_geojson.status = "error"
        THEN StackErr(new_polygon_geojson.kind, FALSE)
        ELSE mask_and_prepare(dataset, env.footprint, mask_fill(dataset),
                              raster_profile)

\* clipping_raster(polygon_geojson, image_path)
clipping_raster(polygon_geojson, src, env) ==
    IF polygon_geojson.type \notin {"Polygon", "MultiPolygon"}
    THEN [status |-> "error", kind |-> "unsupported_geometry_type",
          mask_called |-> FALSE, cliped_image |-> <<>>, out_meta |-> Unused]
    ELSE IF ~CoordsFinite(polygon_geojson.coordinates)
    THEN [status |-> "error", kind |-> "invalid_coordinates",
          mask_called |-> FALSE, cliped_image |-> <<>>, out_meta |-> Unused]
    ELSE IF ~env.footprint.overlap
    THEN [status |-> "error", kind |-> "no_overlap",
          mask_called |-> FALSE, cliped_image |-> <<>>, out_meta |-> Unused]
    ELSE
        LET m == mask_crop(src, env.footprint, mask_fill(src))
        IN  [status |-> "ok", kind |-> "none", mask_called |-> TRUE,
             cliped_image |-> m.image,
             out_meta |-> [src.profile EXCEPT
                            !.height = Len(m.image[1]),
                            !.width = Len(m.image[1][1]),
                            !.transform = m.transform]]

----------------------------------------------------------------------------
(* Specification SpecClip: one call of a clip entry point *)

ClipEntries == {"clipping_raster", "band_stacker", "band_stacker_from_mem"}

\* a raster file holding the stack, written with nodata -9999 or without
RasterFile(stacked, has_nodata) ==
    [persist_raster(stacked) EXCEPT
        !.profile.has_nodata = has_nodata,
        !.profile.nodata = IF has_nodata THEN file_nodata ELSE 0]

ClipRasters ==
    {RasterFile(SceneStack(scene), n) :
        scene \in {"ones", "sparse"}, n \in BOOLEAN}

\* footprints of the polygon given to mask: none, the whole raster, and
\* the whole window with the cells of the diagonal inside
DiagonalFootprint ==
    [overlap |-> TRUE, r0 |-> 1, r1 |-> RasterH, c0 |-> 1, c1 |-> RasterW,
     inside |-> {x \in Cells(1, RasterH, 1, RasterW) : x[1] = x[2]}]

ClipFootprints ==
    {NoOverlapPolygon,
     [overlap |-> TRUE, r0 |-> 1, r1 |-> RasterH, c0 |-> 1, c1 |-> RasterW,
      inside |-> Cells(1, RasterH, 1, RasterW)],
     DiagonalFootprint}

InitClip ==
    /\ pc = "call"
    /\ AuxUnused
    /\ \E g \in GeoJsons(GeometryTypes), epsg \in {32614, 32615} :
        \E as \in Reprojected(32614, g, epsg) :
            clip_in \in
                [entry : ClipEntries,
                 src : ClipRasters,
                 polygon_geojson : {g},
                 polygon_crs_epsg : {epsg},
                 env : [footprint : ClipFootprints, as : {as}]]
    /\ clip_out = Unused
    /\ crs_in = Unused /\ crs_out = Unused
    /\ clipped_image = Unused /\ feature_out = Unused
    /\ shape_in = Unused /\ shape_out = Unused
    /\ utm_in = Unused /\ utm_out = Unused
    /\ cog_in = Unused /\ cog_out = Unused
    /\ req = Unused /\ SharedUnused

ClipUnchanged ==
    UNCHANGED <<clipped_image, feature_out, shape_in, shape_out, utm_in,
                utm_out, cog_in, cog_out, req, crs_in, crs_out, clip_in,
                shared, aux>>

ClippingRaster ==
    /\ pc = "call"
    /\ clip_in.entry = "clipping_raster"
    /\ clip_out' = clipping_raster(clip_in.polygon_geojson, clip_in.src,
                                   clip_in.env)
    /\ pc' = "done"
    /\ ClipUnchanged

BandStackerPath ==
    /\ pc = "call"
    /\ clip_in.entry = "band_stacker"
    /\ clip_out' = band_stacker(clip_in.src, clip_in.polygon_geojson,
                                clip_in.polygon_crs_epsg, clip_in.env)
    /\ pc' = "done"
    /\ ClipUnchanged

BandStackerFromMem ==
    /\ pc = "call"
    /\ clip_in.entry = "band_stacker_from_mem"
    /\ clip_out' = band_stacker_from_mem(clip_in.src.data, clip_in.src.profile,
                        clip_in.polygon_geojson, clip_in.polygon_crs_epsg,
                        clip_in.env)
    /\ pc' = "done"
    /\ ClipUnchanged

NextClip == ClippingRaster \/ BandStackerPath \/ BandStackerFromMem

SpecClip == InitClip /\ [][NextClip]_vars

----------------------------------------------------------------------------
(* Claims on the clip entry points *)

ClipCallDone == pc = "done" /\ clip_out # Unused

\* C15: every clip entry point (clipping_raster, band_stacker,
\* band_stacker_from_mem) raises for a polygon with a non-finite coordinate,
\* and raises before the raster mask operation is attempted.
Cex_C15_NonFiniteBeforeMask ==
    (ClipCallDone /\ ~CoordsFinite(clip_in.polygon_geojson.coordinates)) =>
        clip_out.status = "error" /\ ~clip_out.mask_called

\* C17: band_stacker_from_mem on a raster's array and profile gives what
\* band_stacker gives on that raster opened from its path, for the same
\* polygon and polygon CRS: same outcome, clipped grid, clipped transform,
\* validity mask and feature matrix.
Thm_C17_MemEqualsPath ==
    (ClipCallDone /\ clip_in.entry = "band_stacker_from_mem") =>
        LET path == band_stacker(clip_in.src, clip_in.polygon_geojson,
                                 clip_in.polygon_crs_epsg, clip_in.env)
        IN  /\ clip_out.status = path.status
            /\ clip_out.kind = path.kind
            /\ clip_out.clipped_image = path.clipped_image
            /\ clip_out.clipped_transform = path.clipped_transform
            /\ clip_out.valid_mask = path.valid_mask
            /\ clip_out.features = path.features

\* an in-memory raster with nodata was clipped by a polygon that leaves
\* cells of its window outside
Wit_C17_MemEqualsPath ==
    /\ ClipCallDone /\ clip_in.entry = "band_stacker_from_mem"
    /\ clip_out.status = "ok"
    /\ clip_in.src.profile.has_nodata
    /\ clip_in.env.footprint.inside # Cells(1, RasterH, 1, RasterW)
    /\ \E r \in DOMAIN clip_out.valid_mask :
        \E c \in DOMAIN clip_out.valid_mask[r] :
            clip_out.clipped_image[1][r][c] = Num(file_nodata)

----------------------------------------------------------------------------
(* The predictor and the request *)

\* StandardScaler().fit(X).transform(X): entry (i, j) becomes the scaled
\* value of column j at row i, kept symbolic
standard_scale(X) ==
    [i \in DOMAIN X |-> [j \in DOMAIN X[i] |-> [scaled |-> X[i][j], column |-> j]]]

\* the opaque predictor: one value per sample of the tensor
PredictorKinds == {"flat", "ramp"}
model_predict(kind, tensor) ==
    [i \in DOMAIN tensor |-> IF kind = "flat" THEN 7 ELSE 10 + i]

\* a plausible slip: the predictions laid out column by column
reshape_hw_column_major(preds, height, width) ==
    [r \in 1..height |-> [c \in 1..width |-> preds[(c - 1) * height + r]]]

\* preds.reshape(height, width)
reshape_hw(preds, height, width) ==
    [r \in 1..height |-> [c \in 1..width |-> preds[(r - 1) * width + c]]]

\* what the predictor hands back for the tensor; with the fault
\* "count_mismatch" one prediction is missing
received_predictions(cfg, tensor) ==
    LET p == model_predict(cfg.predictor, tensor)
    IN  IF cfg.fault = "count_mismatch" THEN SubSeq(p, 1, Len(p) - 1) ELSE p

PredictErr(kind, ready, received) ==
    [status |-> "error", kind |-> kind, adapted |-> ready,
     received |-> received, grid |-> <<>>]

\* a plausible slip: a short prediction list is padded instead of refused
shape_predictions_padded(preds, height, width, ready, kind) ==
    [status |-> "ok", kind |-> "none", adapted |-> ready,
     received |-> Len(preds),
     grid |-> [r \in 1..height |-> [c \in 1..width |->
                 IF (r - 1) * width + c <= Len(preds)
                 THEN preds[(r - 1) * width + c] ELSE 0]]]

\* the size test of the legacy path (preds.size != expected_size) and the
\* reshape of both paths, which raises when the count is not height * width
shape_predictions(preds, height, width, ready, kind) ==
    IF Len(preds) # height * width
    THEN PredictErr(kind, ready, Len(preds))
    ELSE [status |-> "ok", kind |-> "none", adapted |-> ready,
          received |-> Len(preds),
          grid |-> reshape_hw(preds, height, width)]

\* predict_density: cfg holds what the environment and the model file say:
\* legacy (LEGACY_INFER_URL set), model_input_shape, the predictor itself,
\* and the fault of the predictor call, if any
predict_density(feature_input, height, width, cfg) ==
    IF cfg.legacy
    THEN \* the legacy service scales, reshapes with reshape_for_model and
         \* predicts; a failure there comes back as HTTP 500
        LET ready == reshape_for_model(feature_input, cfg.model_input_shape)
        IN  IF cfg.fault \in {"timeout", "transport"}
            THEN PredictErr("legacy_request_failed", Unused, 0)
            ELSE IF ready.status = "error" \/ cfg.fault = "http_error"
            THEN PredictErr("legacy_request_failed", ready, 0)
            ELSE IF cfg.fault = "status_not_success"
            THEN PredictErr("legacy_inference_error", ready, 0)
            ELSE shape_predictions(received_predictions(cfg, ready.tensor),
                                   height, width, ready,
                                   "prediction_count_mismatch")
    ELSE
        LET ready == adapt_input(standard_scale(feature_input),
                                 cfg.model_input_shape)
        IN  IF ready.status = "error"
            THEN PredictErr(ready.kind, ready, 0)
            ELSE IF cfg.fault = "predict_raises"
            THEN PredictErr("predict_failed", ready, 0)
            ELSE shape_predictions(received_predictions(cfg, ready.tensor),
                                   height, width, ready, "cannot_reshape")

\* a plausible slip: the mask applied without the negation
force_nodata_inverted(density_array, valid_mask) ==
    [r \in DOMAIN density_array |->
        [c \in DOMAIN density_array[r] |->
            IF valid_mask[r][c] THEN nodata_value ELSE density_array[r][c]]]

\* density_array[~valid_mask] = nodata_value
force_nodata(density_array, valid_mask) ==
    [r \in DOMAIN density_array |->
        [c \in DOMAIN density_array[r] |->
            IF ~valid_mask[r][c] THEN nodata_value ELSE density_array[r][c]]]

\* the ways the predictor call fails, by path
LegacyFaults ==
    {"timeout", "transport", "http_error", "status_not_success", "count_mismatch"}
LocalFaults == {"predict_raises", "count_mismatch"}

FaultyConfig(legacy, fault) ==
    [legacy |-> legacy, predictor |-> "ramp", fault |-> fault,
     model_input_shape |->
        [is_list |-> FALSE, shape |-> <<"None", 21, 1>>, shapes |-> <<>>]]

PredictorConfigs ==
    {[legacy |-> l, predictor |-> k, fault |-> "none",
      model_input_shape |-> [is_list |-> FALSE, shape |-> sh, shapes |-> <<>>]] :
        l \in BOOLEAN, k \in PredictorKinds,
        sh \in {<<"None", 21, 1>>, <<"None", 1, 21>>, <<"None", 4, 6>>}}
    \cup {FaultyConfig(TRUE, f) : f \in LegacyFaults}
    \cup {FaultyConfig(FALSE, f) : f \in LocalFaults}

ErrorResponse(http, body) == [http |-> http, body |-> body]

\* centroid of the request's area of interest, in whole degrees (UTM 14N)
RoiCentroid == [lon |-> -97, lat |-> 45]

IsUtmEpsg(epsg) ==
    (32601 <= epsg /\ epsg <= 32660) \/ (32701 <= epsg /\ epsg <= 32760)

\* utm_epsg_from_polygon on a GeoJSON of the request: a centroid with a nan
\* makes int((lon + 180) // 6) raise
utm_epsg_of_geojson(g) ==
    IF g.type \notin ShapelyTypes THEN UtmErr("unknown_geometry_type")
    ELSE IF ~g.is_valid /\ ~g.buffer_valid THEN UtmErr("invalid_geometry")
    ELSE IF ~CoordsFinite(g.coordinates) THEN UtmErr("nan_centroid")
    ELSE utm_epsg_from_polygon([is_valid |-> g.is_valid,
                                buffer_valid |-> g.buffer_valid,
                                lon |-> RoiCentroid.lon,
                                lat |-> RoiCentroid.lat])

\* one call of match_crs by the request, with what it was given
CrsCall(at, raster_crs, g, epsg, as) ==
    [at |-> at, raster_crs |-> raster_crs, polygon_geojson |-> g,
     polygon_crs_epsg |-> epsg, as |-> as,
     out |-> match_crs(raster_crs, g, epsg, as)]

\* what is left at the output path when writing it fails after it was opened
PartialFile == [k |-> "partial"]

\* the request as received: its method, whether its body parses as JSON,
\* and what the body holds under 'polygon', 'date' and 'crs'
RequestBody(method, json_ok, has_polygon, date, crs) ==
    [method |-> method, json_ok |-> json_ok, has_polygon |-> has_polygon,
     date |-> date, crs |-> crs]

PlainBody == RequestBody("POST", TRUE, TRUE, "ok", "EPSG:int")

ReqStart(poly, scene, geojson, epsg) ==
    [pc |-> "start", body |-> PlainBody, gee_state |-> "ready",
     fetch |-> Unused,
     polygon |-> poly, scene |-> scene,
     polygon_geojson |-> geojson, polygon_crs_epsg |-> epsg,
     crs_calls |-> <<>>, polygon_geojson_wgs84 |-> Unused,
     utm_epsg |-> 0, polygon_geojson_utm |-> Unused,
     root_file |-> Unused, clip |-> Unused, stacked |-> Unused,
     cfg |-> Unused,
     predicted |-> Unused, preds |-> <<>>, density_array |-> <<>>,
     cog_call |-> Unused, output_file |-> Unused, response |-> Unused]

Failed(r, kind) ==
    [r EXCEPT !.pc = "responded",
              !.response = ErrorResponse(500,
                                [status |-> "error", error |-> kind])]

\* return JsonResponse({'error': ...}, status=...)
Answered(r, http, error) ==
    [r EXCEPT !.pc = "responded",
              !.response = ErrorResponse(http, [error |-> error])]

----------------------------------------------------------------------------
(* Specification SpecReq: one request through the pipeline *)

\* a valid triangle in WGS84
PlainGeoJson == GeoJson("Polygon", Triangle, TRUE, TRUE)

RequestEpsg == {4326, 32614, 32615, 99999}

RequestBodies ==
    {RequestBody(m, j, p, d, c) :
        m \in {"POST", "GET"}, j \in BOOLEAN, p \in BOOLEAN,
        d \in {"ok", "missing", "malformed"},
        c \in {"absent", "EPSG:int", "EPSG:abc", "other"}}

\* _GEE_READY as fetch_gee_image finds it, and how the initialization it
\* then retries ends
GeeStates == {"ready", "retry_ok", "retry_failed"}

InitReq ==
    /\ pc = "request"
    /\ AuxUnused
    /\ req \in
        {ReqStart(poly, scene, PlainGeoJson, 4326) :
            poly \in Polygons(RasterH, RasterW), scene \in Scenes}
        \cup
        {ReqStart(DiagonalFootprint, "ones", g, epsg) :
            g \in GeoJsons(GeometryTypes), epsg \in RequestEpsg}
        \cup
        {[ReqStart(DiagonalFootprint, "ones", PlainGeoJson, 4326) EXCEPT
                !.body = b, !.gee_state = gs] :
            b \in RequestBodies, gs \in GeeStates}
    /\ clipped_image = Unused /\ feature_out = Unused
    /\ shape_in = Unused /\ shape_out = Unused
    /\ utm_in = Unused /\ utm_out = Unused
    /\ cog_in = Unused /\ cog_out = Unused
    /\ GeoUnused /\ SharedUnused

ReqUnchanged ==
    UNCHANGED <<pc, clipped_image, feature_out, shape_in, shape_out,
                utm_in, utm_out, cog_in, cog_out, geo, shared, aux>>

\* views.py 731-748 and 824-825: the method, the body and its three fields
Validate ==
    /\ req.pc = "start"
    /\ LET b == req.body
       IN  req' =
            IF b.method # "POST"
            THEN Answered(req, 405, "Method not allowed. Use POST.")
            ELSE IF ~b.json_ok THEN Failed(req, "json")
            ELSE IF ~b.has_polygon
            THEN Answered(req, 400, "Polygon data is missing.")
            ELSE IF b.date = "missing"
            THEN Answered(req, 400, "Date is missing.")
            ELSE IF b.crs \in {"absent", "EPSG:int"}
            THEN [req EXCEPT !.pc = "validated"]
            ELSE IF b.crs = "EPSG:abc"
            THEN Failed(req, "invalid literal for int()")
            ELSE Answered(req, 400, "Invalid CRS format.")
    /\ ReqUnchanged

\* views.py 750-759: the polygon in EPSG:4326 for the download, and in UTM
\* for the clip
ReconcilePolygon ==
    /\ req.pc = "validated"
    /\ LET g == req.polygon_geojson
           epsg == req.polygon_crs_epsg
       IN  \E as1 \in Reprojected(4326, g, epsg) :
            LET c1 == CrsCall("wgs84", 4326, g, epsg, as1)
                wgs84 == c1.out.geojson
                u == utm_epsg_of_geojson(wgs84)
            IN  IF c1.out.status = "error"
                THEN req' = [Failed(req, c1.out.kind) EXCEPT
                                !.crs_calls = <<c1>>]
                ELSE IF IsUtmEpsg(epsg)
                THEN \E as2 \in Reprojected(epsg, g, epsg) :
                    LET c2 == CrsCall("utm", epsg, g, epsg, as2)
                    IN  IF c2.out.status = "error"
                        THEN req' = [Failed(req, c2.out.kind) EXCEPT
                                        !.crs_calls = <<c1, c2>>]
                        ELSE req' = [req EXCEPT
                                !.pc = "reconciled",
                                !.crs_calls = <<c1, c2>>,
                                !.polygon_geojson_wgs84 = wgs84,
                                !.utm_epsg = epsg,
                                !.polygon_geojson_utm = c2.out.geojson]
                ELSE IF u.status = "error"
                THEN req' = [Failed(req, u.kind) EXCEPT !.crs_calls = <<c1>>]
                ELSE \E as2 \in Reprojected(u.epsg, wgs84, 4326) :
                    LET c2 == CrsCall("utm", u.epsg, wgs84, 4326, as2)
                    IN  IF c2.out.status = "error"
                        THEN req' = [Failed(req, c2.out.kind) EXCEPT
                                        !.crs_calls = <<c1, c2>>]
                        ELSE req' = [req EXCEPT
                                !.pc = "reconciled",
                                !.crs_calls = <<c1, c2>>,
                                !.polygon_geojson_wgs84 = wgs84,
                                !.utm_epsg = u.epsg,
                                !.polygon_geojson_utm = c2.out.geojson]
    /\ ReqUnchanged

\* what a call of fetch_gee_image did before it returned or raised
FetchCall(init_retried, date_parsed, queried) ==
    [init_retried |-> init_retried, date_parsed |-> date_parsed,
     queried |-> queried]

FetchFailed(r, call) ==
    [Answered(r, 500, "Failed to fetch satellite image") EXCEPT !.fetch = call]

\* fetch_gee_image: the readiness test and the retried initialization, the
\* date parsed with strptime, then the queries and the download in the UTM
\* zone of the polygon; the download is read, refused when it holds only
\* zeros, else written to disk with nodata = -9999
FetchGeeImage ==
    /\ req.pc = "reconciled"
    /\ LET stacked == SceneStack(req.scene)
           roi_utm_epsg == utm_epsg_of_geojson(req.polygon_geojson_wgs84)
           init_retried == req.gee_state # "ready"
       IN  IF req.gee_state = "retry_failed"
           THEN req' = FetchFailed(req, FetchCall(TRUE, FALSE, FALSE))
           ELSE IF req.body.date = "malformed"
           THEN req' = FetchFailed(req, FetchCall(init_retried, FALSE, FALSE))
           ELSE IF roi_utm_epsg.status = "error" \/ AllZero(stacked)
           THEN req' = FetchFailed(req, FetchCall(init_retried, TRUE, TRUE))
           ELSE req' = [req EXCEPT
                    !.pc = "fetched",
                    !.fetch = FetchCall(init_retried, TRUE, TRUE),
                    !.root_file = persist_raster(stacked)]
    /\ ReqUnchanged

BandStacker ==
    /\ req.pc = "fetched"
    /\ \E as \in Reprojected(EpsgOf(req.root_file.profile.crs),
                             req.polygon_geojson_utm, req.utm_epsg) :
        \E out \in {band_stacker(req.root_file, req.polygon_geojson_utm,
                                 req.utm_epsg,
                                 [footprint |-> req.polygon, as |-> as])} :
            LET call == CrsCall("band_stacker",
                            EpsgOf(req.root_file.profile.crs),
                            req.polygon_geojson_utm, req.utm_epsg, as)
            IN  IF out.status = "error"
                THEN req' = [Failed(req, out.kind) EXCEPT
                                !.clip = out,
                                !.crs_calls = Append(req.crs_calls, call)]
                ELSE req' = [req EXCEPT
                                !.pc = "stacked", !.clip = out, !.stacked = out,
                                !.crs_calls = Append(req.crs_calls, call)]
    /\ ReqUnchanged

PredictTillerDensity ==
    /\ req.pc = "stacked"
    /\ \E cfg \in PredictorConfigs :
        \E out \in {predict_density(req.stacked.features.feature_input,
                                    req.stacked.features.height,
                                    req.stacked.features.width, cfg)} :
            IF out.status = "error"
            THEN req' = [Failed(req, out.kind) EXCEPT
                            !.cfg = cfg, !.predicted = out]
            ELSE req' = [req EXCEPT
                    !.pc = "predicted", !.cfg = cfg, !.predicted = out,
                    !.preds = out.grid, !.density_array = out.grid]
    /\ ReqUnchanged

ForceNodata ==
    /\ req.pc = "predicted"
    /\ req' = [req EXCEPT
            !.pc = "masked",
            !.density_array = force_nodata(req.density_array,
                                           req.stacked.valid_mask)]
    /\ ReqUnchanged

\* views.py 788-792 and create_outputRaster_COG: the call may raise before
\* the output path is opened for writing, or after
CreateOutputRaster ==
    /\ req.pc = "masked"
    /\ \E raised \in {"none", "before_open", "after_open"} :
        LET call == [raster_profile |-> req.stacked.src_profile,
                     transform |-> req.stacked.clipped_transform,
                     predictArray |-> req.density_array,
                     target_crs |-> "EPSG:3857"]
        IN  CASE raised = "none" ->
                    req' = [req EXCEPT
                        !.pc = "rasterized",
                        !.cog_call = call,
                        !.output_file = create_outputRaster_COG(
                            req.stacked.src_profile,
                            req.stacked.clipped_transform,
                            req.density_array, "EPSG:3857")]
              [] raised = "before_open" ->
                    req' = [Failed(req, "reprojection_failed") EXCEPT
                        !.cog_call = call]
              [] raised = "after_open" ->
                    req' = [Failed(req, "reprojection_failed") EXCEPT
                        !.cog_call = call, !.output_file = PartialFile]
    /\ ReqUnchanged

\* tiller_density_map_<timestamp>.tif, the timestamp left symbolic
output_filename == <<"tiller_density_map_", "timestamp", ".tif">>

\* request.build_absolute_uri(reverse('media_range', filename))
media_url(filename) == [route |-> "media_range", filename |-> filename]

\* src.bounds of the raster at output_path
bounds_of(file) ==
    [left |-> [of |-> "output", side |-> "left"],
     bottom |-> [of |-> "output", side |-> "bottom"],
     right |-> [of |-> "output", side |-> "right"],
     top |-> [of |-> "output", side |-> "top"]]

\* views.py 794-816: the file is opened again for its bounds and CRS and
\* the URL is built; either may raise
Respond ==
    /\ req.pc = "rasterized"
    /\ \E raised \in {"none", "reopen", "url"} :
        IF raised = "none"
        THEN req' = [req EXCEPT
                !.pc = "responded",
                !.response = [http |-> 200,
                              body |-> [status |-> "success",
                                        cog_url |-> media_url(output_filename),
                                        bounds |-> bounds_of(req.output_file),
                                        crs |-> req.output_file.crs]]]
        ELSE req' = Failed(req, raised)
    /\ ReqUnchanged

NextReq ==
    \/ Validate
    \/ ReconcilePolygon
    \/ FetchGeeImage
    \/ BandStacker
    \/ PredictTillerDensity
    \/ ForceNodata
    \/ CreateOutputRaster
    \/ Respond

SpecReq == InitReq /\ [][NextReq]_vars

----------------------------------------------------------------------------
(* Claims on the request pipeline *)

ReqStacked == req.stacked # Unused
ReqPredictCalled == req.cfg # Unused

\* C5: when the predictor declares (steps = 4, channels = 6) the request
\* does not fail on the shape: the 21-column matrix is adapted to a
\* (batch, 4, 6) tensor whose 4 steps are identical in every row.
Cex_C5_LegacyShapeAdapted ==
    (ReqPredictCalled
        /\ FirstShape(req.cfg.model_input_shape) = <<"None", 4, 6>>) =>
        /\ req.predicted.status = "ok"
        /\ \A i \in DOMAIN req.predicted.adapted.tensor :
            LET row == req.predicted.adapted.tensor[i]
            IN  /\ Len(row) = 4
                /\ \A st \in 1..4 : Len(row[st]) = 6 /\ row[st] = row[1]

\* C6: in the clipped grid of a request every pixel outside the polygon is
\* zero in all bands and has validity mask false, every pixel inside it with
\* a non-zero band has validity mask true, and the mask has the height and
\* width of the clipped grid.
Cex_C6_OutsideZeroMaskFalse ==
    ReqStacked =>
        LET img == req.stacked.clipped_image
            vm == req.stacked.valid_mask
            q == req.polygon
        IN  /\ Len(vm) = Len(img[1])
            /\ \A r \in DOMAIN vm :
                /\ Len(vm[r]) = Len(img[1][r])
                /\ \A c \in DOMAIN vm[r] :
                    IF <<q.r0 + r - 1, q.c0 + c - 1>> \in q.inside
                    THEN (\E b \in DOMAIN img : img[b][r][c] # Num(0))
                            => vm[r][c]
                    ELSE /\ \A b \in DOMAIN img : img[b][r][c] = Num(0)
                         /\ ~vm[r][c]

\* C7: at the call of create_outputRaster_COG the grid passed holds -99999
\* wherever the validity mask is false and the predictor's value wherever it
\* is true, and it is the grid the masking step left.
Thm_C7_MaskedBeforeRasterize ==
    /\ req.pc \in {"masked", "rasterized"} =>
        /\ DOMAIN req.density_array = DOMAIN req.stacked.valid_mask
        /\ \A r \in DOMAIN req.density_array :
            /\ DOMAIN req.density_array[r] = DOMAIN req.stacked.valid_mask[r]
            /\ \A c \in DOMAIN req.density_array[r] :
                req.density_array[r][c] =
                    IF req.stacked.valid_mask[r][c] THEN req.preds[r][c]
                    ELSE -99999
    /\ req.cog_call # Unused =>
        /\ req.cog_call.predictArray = req.density_array
        /\ \A r \in DOMAIN req.stacked.valid_mask :
            \A c \in DOMAIN req.stacked.valid_mask[r] :
                req.cog_call.predictArray[r][c] =
                    IF req.stacked.valid_mask[r][c] THEN req.preds[r][c]
                    ELSE -99999

\* a grid with a masked-out and a kept pixel reached the rasterizer
Wit_C7_MaskedBeforeRasterize ==
    /\ req.cog_call # Unused
    /\ \E r \in DOMAIN req.stacked.valid_mask :
        \E c \in DOMAIN req.stacked.valid_mask[r] :
            ~req.stacked.valid_mask[r][c]
    /\ \E r \in DOMAIN req.stacked.valid_mask :
        \E c \in DOMAIN req.stacked.valid_mask[r] :
            req.stacked.valid_mask[r][c]

\* the zero-width buffer was tried by the call and left the polygon invalid:
\* the polygon given, or its reprojection
RepairFailed(c) ==
    /\ c.polygon_crs_epsg \in KnownEpsg
    /\ c.polygon_geojson.type \in ShapelyTypes
    /\ \/ ~c.polygon_geojson.is_valid /\ ~c.polygon_geojson.buffer_valid
       \/ /\ c.raster_crs # c.polygon_crs_epsg
          /\ ~c.as.is_valid /\ ~c.as.buffer_valid

ReqFailed == req.pc = "responded" /\ req.response.http # 200

\* C13 (as stated): when buffer(0) leaves the polygon or its reprojection
\* invalid, match_crs raises and the request ends with an error response
\* without acquiring a raster, invoking the predictor or writing an output
\* raster.
Cex_C13_RepairFailureEndsRequest ==
    req.crs_calls # <<>> =>
        \A i \in DOMAIN req.crs_calls :
            RepairFailed(req.crs_calls[i]) =>
                /\ req.crs_calls[i].out.status = "error"
                /\ ReqFailed
                /\ req.root_file = Unused
                /\ req.cfg = Unused /\ req.predicted = Unused
                /\ req.cog_call = Unused /\ req.output_file = Unused

\* C13 (amended): when buffer(0) leaves the polygon or its reprojection
\* invalid, match_crs raises, it is the last call of the request, and the
\* request ends with an error response without invoking the predictor or
\* writing an output raster; no raster was acquired when the call is one of
\* the two that precede fetch_gee_image, while the call inside band_stacker
\* raises after the raster was downloaded and saved.
Thm_C13_RepairFailureEndsRequest ==
    req.crs_calls # <<>> =>
        \A i \in DOMAIN req.crs_calls :
            RepairFailed(req.crs_calls[i]) =>
                /\ req.crs_calls[i].out.status = "error"
                /\ req.crs_calls[i].out.kind \in
                        {"original_invalid", "transformed_invalid"}
                /\ i = Len(req.crs_calls)
                /\ ReqFailed
                /\ req.response.body.status = "error"
                /\ req.cfg = Unused /\ req.predicted = Unused
                /\ req.cog_call = Unused /\ req.output_file = Unused
                /\ IF req.crs_calls[i].at = "band_stacker"
                   THEN req.root_file # Unused
                   ELSE req.root_file = Unused

\* the reprojection inside band_stacker could not be repaired
Wit_C13_RepairFailureEndsRequest ==
    /\ req.crs_calls # <<>>
    /\ LET c == req.crs_calls[Len(req.crs_calls)]
       IN  /\ c.at = "band_stacker"
           /\ RepairFailed(c)
           /\ c.out.kind = "transformed_invalid"
    /\ ReqFailed

\* C14: a request whose geometry type is neither Polygon nor MultiPolygon is
\* rejected by match_crs or band_stacker: it never leaves the clipping stage
\* with a clipped grid, and once it has responded the response is an error.
Cex_C14_TypeRejected ==
    (req.polygon_geojson.type \notin {"Polygon", "MultiPolygon"}) =>
        /\ req.stacked = Unused
        /\ req.pc \in {"start", "validated", "reconciled", "fetched",
                      "responded"}
        /\ req.pc = "responded" => req.response.http # 200

\* C16: when band_stacker is given a polygon that lies entirely outside the
\* raster, the clip fails with the no-overlap error of mask, the request
\* ends with an error response, and no output raster was created.
Thm_C16_NoOverlapFails ==
    (req.clip # Unused /\ ~req.polygon.overlap) =>
        /\ req.clip.status = "error"
        /\ req.clip.mask_called => req.clip.kind = "no_overlap"
        /\ req.stacked = Unused
        /\ ReqFailed
        /\ req.response.body.status = "error"
        /\ req.cog_call = Unused /\ req.output_file = Unused

\* the mask of a polygon outside the raster was attempted
Wit_C16_NoOverlapFails ==
    /\ req.clip # Unused /\ ~req.polygon.overlap
    /\ req.clip.mask_called /\ req.clip.kind = "no_overlap"
    /\ req.root_file # Unused
    /\ ReqFailed

\* C20: a request that ends with an error response leaves no file at its
\* output path, whichever step failed.
Cex_C20_NoFileAfterError ==
    ReqFailed => req.output_file = Unused

ReqResponded == req.pc = "responded"

\* C21: a success response carries status, the tiled-raster URL, the bounds
\* left, bottom, right, top and the output CRS; every failure response
\* carries a status field and an error message and has a non-2xx status.
Cex_C21_ResponseContract ==
    ReqResponded =>
        LET body == req.response.body
        IN  IF req.response.http = 200
            THEN /\ DOMAIN body = {"status", "cog_url", "bounds", "crs"}
                 /\ body.status = "success"
                 /\ DOMAIN body.bounds = {"left", "bottom", "right", "top"}
            ELSE /\ req.response.http \notin 200..299
                 /\ {"status", "error"} \subseteq DOMAIN body

\* the predictor call of the request failed
PredictorFailed ==
    /\ ReqPredictCalled
    /\ \/ req.cfg.fault # "none"
       \/ req.predicted.status = "error"
       \/ req.predicted.received #
            req.stacked.features.height * req.stacked.features.width

\* C23: when the predictor call fails (timeout, transport or HTTP error, a
\* status other than success, a prediction count other than height x width,
\* or the local predictor raising), predict_density raises, the request ends
\* with an error response and no prediction grid is used; predict_density
\* returns a grid only when it received exactly height x width predictions,
\* and the grid is shaped (height, width).
Thm_C23_PredictorFailureEndsRequest ==
    /\ PredictorFailed =>
        /\ req.predicted.status = "error"
        /\ req.predicted.grid = <<>>
        /\ ReqFailed
        /\ req.response.body.status = "error"
        /\ req.preds = <<>> /\ req.density_array = <<>>
        /\ req.cog_call = Unused /\ req.output_file = Unused
    /\ (ReqPredictCalled /\ req.predicted.status = "ok") =>
        LET h == req.stacked.features.height
            w == req.stacked.features.width
        IN  /\ req.predicted.received = h * w
            /\ Len(req.predicted.grid) = h
            /\ \A r \in 1..h : Len(req.predicted.grid[r]) = w

\* the legacy service answered with one prediction too few for a grid of
\* several pixels
Wit_C23_PredictorFailureEndsRequest ==
    /\ PredictorFailed
    /\ req.cfg.legacy /\ req.cfg.fault = "count_mismatch"
    /\ req.predicted.received >= 1
    /\ req.predicted.kind = "prediction_count_mismatch"
    /\ ReqFailed

\* the clipped grid cut down to its pixel (r, c)
OnePixel(image, r, c) ==
    [bands |-> Len(image), height |-> 1, width |-> 1,
     data |-> [b \in DOMAIN image |-> <<(<<image[b][r][c]>>)>>]]

\* C24: prepare_features returns height x width rows, row r * width + c
\* (counted from 0) holding the features of clipped-grid pixel (r, c) whether
\* or not the validity mask is true there; the prediction reshaped to
\* (height, width) holds at (r, c) the prediction of that row, so it is
\* aligned pixel for pixel with the validity mask applied to it. The rows
\* are compared when band_stacker has returned them (the request never
\* writes them again), the rest in every state after it.
Thm_C24_MaskAligned ==
    ReqStacked =>
        LET f == req.stacked.features
            img == req.stacked.clipped_image
            vm == req.stacked.valid_mask
            h == Len(img[1])
            w == Len(img[1][1])
        IN  /\ f.height = h /\ f.width = w
            /\ Len(f.feature_input) = h * w
            /\ Len(vm) = h
            /\ \A r \in 1..h :
                /\ Len(vm[r]) = w
                /\ \A c \in 1..w :
                    /\ req.pc = "stacked" =>
                        f.feature_input[(r - 1) * w + c] =
                          prepare_features(OnePixel(img, r, c)).feature_input[1]
                    /\ vm[r][c] <=>
                        \E b \in DOMAIN img : ~IsZero(img[b][r][c])
            /\ (ReqPredictCalled /\ req.predicted.status = "ok") =>
                /\ Len(req.preds) = h
                /\ \A r \in 1..h :
                    /\ Len(req.preds[r]) = w
                    /\ \A c \in 1..w :
                        /\ req.preds[r][c] =
                            model_predict(req.cfg.predictor,
                                req.predicted.adapted.tensor)[(r - 1) * w + c]
                        /\ req.pc \in {"masked", "rasterized"} =>
                            req.density_array[r][c] =
                                IF vm[r][c] THEN req.preds[r][c]
                                ELSE nodata_value

\* a grid of several rows and columns with a masked-out pixel was predicted
\* by the predictor whose value tells the row it was given, and masked
Wit_C24_MaskAligned ==
    /\ ReqStacked /\ ReqPredictCalled
    /\ req.predicted.status = "ok" /\ req.cfg.predictor = "ramp"
    /\ req.pc = "masked"
    /\ Len(req.stacked.valid_mask) >= 2
    /\ Len(req.stacked.valid_mask[1]) >= 2
    /\ ~req.stacked.valid_mask[1][1]
    /\ req.stacked.valid_mask[1][2]
    /\ req.preds[1][2] # req.preds[2][1]

\* the request is a POST with a JSON body whose polygon is missing, whose
\* date is missing or malformed, or whose crs is not EPSG:<integer>
InvalidInput ==
    /\ req.body.method = "POST" /\ req.body.json_ok
    /\ \/ ~req.body.has_polygon
       \/ req.body.date \in {"missing", "malformed"}
       \/ req.body.crs \in {"EPSG:abc", "other"}

\* C25: a request with a missing polygon, a missing or malformed date or a
\* crs that is not EPSG:<integer> is answered with an error before
\* fetch_gee_image (its Earth Engine initialization included) or the
\* predictor is invoked.
Cex_C25_ValidationBeforeAcquisition ==
    (InvalidInput /\ req.pc # "start") =>
        /\ req.fetch = Unused
        /\ req.root_file = Unused
        /\ req.cfg = Unused
        /\ ReqResponded => req.response.http # 200

----------------------------------------------------------------------------
(* Concurrent requests of one process: the lazily loaded predictor          *)
(* (deep_learning.get_model, legacy_infer.app.get_model) and the            *)
(* timestamp-named files of fetch_gee_image and TillerDensityMap.           *)

\* the request threads
Threads == {"t1", "t2"}

\* the clock advances in ticks, TicksPerSecond of them to the second, and
\* at most MaxClock of them while the requests run
TicksPerSecond == 2
MaxClock == 3

None == [k |-> "None"]

\* datetime.now().strftime("%Y%m%d%H%M%S"): the time cut to the whole second
strftime(now) == now \div TicksPerSecond

NoPath == <<>>

\* os.path.join(MEDIA_ROOT, f"{prefix}_{timestamp}.tif")
media_path(prefix, timestamp) == <<prefix, timestamp>>

\* rasterio.open(path, "w") ... write: the file at path is now the caller's
write_file(files, path, t) ==
    {f \in files : f.path # path} \cup {[path |-> path, by |-> t]}

\* the thread whose data the file at path holds
file_owner(files, path) == (CHOOSE f \in files : f.path = path).by

WorkerStart ==
    [pc |-> "fetch", temp_path |-> NoPath, output_path |-> NoPath,
     saw_none |-> FALSE, loaded |-> None, model |-> None,
     load_calls |-> 0, root_read |-> "nobody", output_read |-> "nobody"]

InitConc ==
    /\ pc = "serving"
    /\ AuxUnused
    /\ MODEL = None
    /\ workers = [t \in Threads |-> WorkerStart]
    /\ clock = 0
    /\ media = {}
    /\ clipped_image = Unused /\ feature_out = Unused
    /\ shape_in = Unused /\ shape_out = Unused
    /\ utm_in = Unused /\ utm_out = Unused
    /\ cog_in = Unused /\ cog_out = Unused
    /\ req = Unused /\ GeoUnused

ConcUnchanged ==
    UNCHANGED <<pc, clipped_image, feature_out, shape_in, shape_out,
                utm_in, utm_out, cog_in, cog_out, req, geo, aux>>

\* time passes
Tick ==
    /\ clock < MaxClock
    /\ clock' = clock + 1
    /\ UNCHANGED <<MODEL, workers, media>>
    /\ ConcUnchanged

\* fetch_gee_image, views.py 298-301: the name of the download
StampDownload(t) ==
    /\ workers[t].pc = "fetch"
    /\ workers' = [workers EXCEPT
            ![t].pc = "save",
            ![t].temp_path = media_path("gee_hls", strftime(clock))]
    /\ UNCHANGED <<MODEL, clock, media>>
    /\ ConcUnchanged

\* fetch_gee_image, views.py 365-368: the download is written
WriteDownload(t) ==
    /\ workers[t].pc = "save"
    /\ media' = write_file(media, workers[t].temp_path, t)
    /\ workers' = [workers EXCEPT ![t].pc = "stack"]
    /\ UNCHANGED <<MODEL, clock>>
    /\ ConcUnchanged

\* band_stacker, views.py 701: the file at root_file is opened and read
ReadDownload(t) ==
    /\ workers[t].pc = "stack"
    /\ workers' = [workers EXCEPT
            ![t].pc = "get_model",
            ![t].root_read = file_owner(media, workers[t].temp_path)]
    /\ UNCHANGED <<MODEL, clock, media>>
    /\ ConcUnchanged

\* get_model: if _MODEL is None
GetModelTest(t) ==
    /\ workers[t].pc = "get_model"
    /\ workers' = [workers EXCEPT
            ![t].pc = IF MODEL = None THEN "load" ELSE "return",
            ![t].saw_none = (MODEL = None)]
    /\ UNCHANGED <<MODEL, clock, media>>
    /\ ConcUnchanged

\* get_model: tf.keras.models.load_model(...), the right-hand side
LoadModel(t) ==
    /\ workers[t].pc = "load"
    /\ workers' = [workers EXCEPT
            ![t].pc = "assign",
            ![t].loaded = [loaded_by |-> t],
            ![t].load_calls = @ + 1]
    /\ UNCHANGED <<MODEL, clock, media>>
    /\ ConcUnchanged

\* get_model: _MODEL = <the loaded model>
AssignModel(t) ==
    /\ workers[t].pc = "assign"
    /\ MODEL' = workers[t].loaded
    /\ workers' = [workers EXCEPT ![t].pc = "return"]
    /\ UNCHANGED <<clock, media>>
    /\ ConcUnchanged

\* get_model: return _MODEL
ReturnModel(t) ==
    /\ workers[t].pc = "return"
    /\ workers' = [workers EXCEPT ![t].pc = "name_output", ![t].model = MODEL]
    /\ UNCHANGED <<MODEL, clock, media>>
    /\ ConcUnchanged

\* TillerDensityMap, views.py 788-790: the name of the output raster
StampOutput(t) ==
    /\ workers[t].pc = "name_output"
    /\ workers' = [workers EXCEPT
            ![t].pc = "write_output",
            ![t].output_path =
                media_path("tiller_density_map", strftime(clock))]
    /\ UNCHANGED <<MODEL, clock, media>>
    /\ ConcUnchanged

\* create_outputRaster_COG, views.py 881-895: the output raster is written
WriteOutput(t) ==
    /\ workers[t].pc = "write_output"
    /\ media' = write_file(media, workers[t].output_path, t)
    /\ workers' = [workers EXCEPT ![t].pc = "read_output"]
    /\ UNCHANGED <<MODEL, clock>>
    /\ ConcUnchanged

\* TillerDensityMap, views.py 795-797: the output is opened for its bounds
ReadOutput(t) ==
    /\ workers[t].pc = "read_output"
    /\ workers' = [workers EXCEPT
            ![t].pc = "responded",
            ![t].output_read = file_owner(media, workers[t].output_path)]
    /\ UNCHANGED <<MODEL, clock, media>>
    /\ ConcUnchanged

NextConc ==
    \/ Tick
    \/ \E t \in Threads : StampDownload(t)
    \/ \E t \in Threads : WriteDownload(t)
    \/ \E t \in Threads : ReadDownload(t)
    \/ \E t \in Threads : GetModelTest(t)
    \/ \E t \in Threads : LoadModel(t)
    \/ \E t \in Threads : AssignModel(t)
    \/ \E t \in Threads : ReturnModel(t)
    \/ \E t \in Threads : StampOutput(t)
    \/ \E t \in Threads : WriteOutput(t)
    \/ \E t \in Threads : ReadOutput(t)

SpecConc == InitConc /\ [][NextConc]_vars

----------------------------------------------------------------------------
(* Claims on concurrent requests *)

\* the threads that have executed the model load
Loaders == {t \in Threads : workers[t].load_calls > 0}

\* C18: under every interleaving the model load is executed by at most one
\* caller, and once _MODEL is not None it is never assigned again.
Cex_C18_InitializedOnce ==
    /\ [](Cardinality(Loaders) <= 1)
    /\ [][MODEL # None => MODEL' = MODEL]_vars

Running(t) == workers[t].pc # "responded"

\* C19: two requests running at the same time never have the same
\* download path or the same output path, and every request reads back the
\* files it wrote itself.
Cex_C19_DistinctPaths ==
    \A t1 \in Threads :
        /\ workers[t1].root_read \in {"nobody", t1}
        /\ workers[t1].output_read \in {"nobody", t1}
        /\ \A t2 \in Threads \ {t1} :
            (Running(t1) /\ Running(t2)) =>
                /\ workers[t1].temp_path # NoPath =>
                        workers[t1].temp_path # workers[t2].temp_path
                /\ workers[t1].output_path # NoPath =>
                        workers[t1].output_path # workers[t2].output_path

----------------------------------------------------------------------------
(* views.py: serve_media_range, for a file that exists under MEDIA_ROOT *)

\* largest file size and largest byte position of a Range header
MaxSize == 4
MaxByte == 5

\* bytes read at a time by stream_file_range (1024 * 128 in the source)
ChunkSize == 2

\* the file holds the bytes 0 .. size - 1; read(n) at position pos
file_read(size, pos, n) ==
    [i \in 1..Max2(0, Min2(n, size - pos)) |-> pos + i - 1]

\* stream_file_range(path, start, length): the bytes yielded, in order
RECURSIVE stream_file_range(_, _, _)
stream_file_range(size, pos, remaining) ==
    IF remaining <= 0 THEN <<>>
    ELSE LET chunk == file_read(size, pos, Min2(ChunkSize, remaining))
         IN  IF chunk = <<>> THEN <<>>
             ELSE chunk \o stream_file_range(size, pos + Len(chunk),
                                             remaining - Len(chunk))

NoBytes == <<>>

RangeResponse(status, length, content_range, body) ==
    [status |-> status, content_length |-> length,
     content_range |-> content_range, body |-> body]

\* a plausible slip: the last byte is not capped to the file
serve_media_range_uncapped(file_size, range_header) ==
    IF range_header.kind = "none"
    THEN RangeResponse(200, file_size, <<>>,
                       stream_file_range(file_size, 0, file_size))
    ELSE IF range_header.kind = "malformed"
    THEN RangeResponse(400, -1, <<>>, NoBytes)
    ELSE
        LET first_byte == range_header.first
            last_byte == IF range_header.has_last THEN range_header.last
                         ELSE file_size - 1
        IN  IF first_byte >= file_size \/ first_byte > last_byte
            THEN RangeResponse(416, -1, <<"bytes", "*", file_size>>, NoBytes)
            ELSE RangeResponse(206, last_byte - first_byte + 1,
                    <<"bytes", first_byte, last_byte, file_size>>,
                    stream_file_range(file_size, first_byte,
                                      last_byte - first_byte + 1))

\* serve_media_range(request, filename); the header is what the pattern
\* bytes=(\d+)-(\d*)$ finds in it
serve_media_range(file_size, range_header) ==
    IF range_header.kind = "none"
    THEN
        LET first_byte == 0
            last_byte == file_size - 1
            length == last_byte - first_byte + 1
        IN  RangeResponse(200, length, <<>>,
                          stream_file_range(file_size, first_byte, length))
    ELSE IF range_header.kind = "malformed"
    THEN RangeResponse(400, -1, <<>>, NoBytes)
    ELSE
        LET first_byte == range_header.first
            last_byte0 == IF range_header.has_last THEN range_header.last
                          ELSE file_size - 1
        IN  IF first_byte >= file_size \/ first_byte > last_byte0
            THEN RangeResponse(416, -1, <<"bytes", "*", file_size>>, NoBytes)
            ELSE
                LET last_byte == Min2(last_byte0, file_size - 1)
                    length == last_byte - first_byte + 1
                IN  RangeResponse(206, length,
                        <<"bytes", first_byte, last_byte, file_size>>,
                        stream_file_range(file_size, first_byte, length))

----------------------------------------------------------------------------
(* Specification SpecRange: one call of serve_media_range *)

RangeHeaders ==
    {[kind |-> "none", first |-> 0, has_last |-> FALSE, last |-> 0],
     [kind |-> "malformed", first |-> 0, has_last |-> FALSE, last |-> 0]}
    \cup {[kind |-> "bytes", first |-> a, has_last |-> FALSE, last |-> 0] :
            a \in 0..MaxByte}
    \cup {[kind |-> "bytes", first |-> a, has_last |-> TRUE, last |-> b] :
            a \in 0..MaxByte, b \in 0..MaxByte}

InitRange ==
    /\ pc = "call"
    /\ range_in \in [file_size : 0..MaxSize, range_header : RangeHeaders]
    /\ range_out = Unused
    /\ gee = Unused /\ zip_in = Unused /\ zip_out = Unused
    /\ clipped_image = Unused /\ feature_out = Unused
    /\ shape_in = Unused /\ shape_out = Unused
    /\ utm_in = Unused /\ utm_out = Unused
    /\ cog_in = Unused /\ cog_out = Unused
    /\ req = Unused /\ GeoUnused /\ SharedUnused

ServeMediaRange ==
    /\ pc = "call"
    /\ range_out' = serve_media_range(range_in.file_size, range_in.range_header)
    /\ pc' = "done"
    /\ UNCHANGED <<clipped_image, feature_out, shape_in, shape_out, utm_in,
                   utm_out, cog_in, cog_out, req, geo, shared, gee, zip_in,
                   zip_out, range_in>>

NextRange == ServeMediaRange

SpecRange == InitRange /\ [][NextRange]_vars

----------------------------------------------------------------------------
(* Claims on serve_media_range *)

RangeCallDone == pc = "done" /\ range_out # Unused

\* the bytes a .. e of the file, in order
FileBytes(a, e) == [i \in 1..(e - a + 1) |-> a + i - 1]

\* C26: for a file of size S, without a Range header the answer is 200 with
\* Content-Length S; with bytes=a-b (b optional) it is 416 with
\* Content-Range bytes */S when a >= S or a > b, and otherwise 206 with
\* Content-Range bytes a-e/S and Content-Length e - a + 1, e = min(b, S - 1);
\* in every 200 and 206 answer the bytes streamed are exactly the declared
\* range, as many as Content-Length says, all within 0 .. S - 1.
Thm_C26_RangeResponse ==
    RangeCallDone =>
        LET S == range_in.file_size
            h == range_in.range_header
            b == IF h.has_last THEN h.last ELSE S - 1
            e == Min2(b, S - 1)
        IN  /\ h.kind = "none" =>
                /\ range_out.status = 200
                /\ range_out.content_length = S
                /\ range_out.body = FileBytes(0, S - 1)
            /\ (h.kind = "bytes" /\ (h.first >= S \/ h.first > b)) =>
                /\ range_out.status = 416
                /\ range_out.content_range = <<"bytes", "*", S>>
                /\ range_out.body = <<>>
            /\ (h.kind = "bytes" /\ ~(h.first >= S \/ h.first > b)) =>
                /\ range_out.status = 206
                /\ range_out.content_range = <<"bytes", h.first, e, S>>
                /\ range_out.content_length = e - h.first + 1
                /\ range_out.body = FileBytes(h.first, e)
            /\ range_out.status \in {200, 206} =>
                /\ Len(range_out.body) = range_out.content_length
                /\ \A i \in DOMAIN range_out.body :
                    range_out.body[i] \in 0..(S - 1)

\* a range that runs past the end of the file was served, over several chunks
Wit_C26_RangeResponse ==
    /\ RangeCallDone
    /\ range_in.range_header.kind = "bytes"
    /\ range_in.range_header.has_last
    /\ range_in.range_header.last > range_in.file_size - 1
    /\ range_out.status = 206
    /\ Len(range_out.body) > ChunkSize

----------------------------------------------------------------------------
(* views.py: fetch_gee_image, stacking of a ZIP of single-band files *)

\* file names are sequences of characters
BandFile(chars) == chars \o <<".", "t", "i", "f">>

desired_order ==
    <<(<<"B">>), (<<"G">>), (<<"R">>), (<<"N", "I", "R">>),
      (<<"S", "W", "I", "R", "1">>), (<<"S", "W", "I", "R", "2">>)>>

\* str.lower() on the characters that occur in the names
lower_char(c) ==
    CASE c = "B" -> "b" [] c = "G" -> "g" [] c = "R" -> "r"
      [] c = "N" -> "n" [] c = "I" -> "i" [] c = "S" -> "s"
      [] c = "W" -> "w" [] c = "Q" -> "q" [] c = "A" -> "a"
      [] OTHER -> c

lower(name) == [i \in DOMAIN name |-> lower_char(name[i])]

\* key in s, for strings
str_in(key, s) ==
    \E i \in 0..(Len(s) - Len(key)) : SubSeq(s, i + 1, i + Len(key)) = key

\* band_index(name): position of the first key found in the name, counted
\* from 0, and len(desired_order) + 1 when none is found
band_index(name) ==
    LET hits == {i \in DOMAIN desired_order :
                    str_in(lower(desired_order[i]), lower(name))}
    IN  IF hits = {} THEN Len(desired_order) + 1
        ELSE (CHOOSE i \in hits : \A j \in hits : i <= j) - 1

\* list.sort(key = band_index): stable, equal keys keep their order
RECURSIVE stable_insert(_, _)
stable_insert(sorted, name) ==
    IF sorted = <<>> THEN <<name>>
    ELSE IF band_index(sorted[Len(sorted)]) <= band_index(name)
         THEN Append(sorted, name)
         ELSE Append(stable_insert(SubSeq(sorted, 1, Len(sorted) - 1), name),
                     sorted[Len(sorted)])

RECURSIVE sort_by_band_index(_)
sort_by_band_index(names) ==
    IF names = <<>> THEN <<>>
    ELSE stable_insert(sort_by_band_index(SubSeq(names, 1, Len(names) - 1)),
                       names[Len(names)])

----------------------------------------------------------------------------
(* Specification SpecZip: one ZIP of single-band files is stacked *)

BandFiles == {BandFile(desired_order[i]) : i \in DOMAIN desired_order}

\* a file of the ZIP named after none of the six bands
OtherFile == BandFile(<<"Q", "A">>)

RECURSIVE Listings(_)
Listings(files) ==
    IF files = {} THEN {<<>>}
    ELSE UNION {{<<f>> \o rest : rest \in Listings(files \ {f})} : f \in files}

InitZip ==
    /\ pc = "call"
    /\ zip_in \in [tif_names : Listings(BandFiles)]
            \cup [tif_names : {Append(l, OtherFile) : l \in Listings(BandFiles)}
                              \cup {<<OtherFile>> \o l : l \in Listings(BandFiles)}]
    /\ zip_out = Unused
    /\ gee = Unused /\ range_in = Unused /\ range_out = Unused
    /\ clipped_image = Unused /\ feature_out = Unused
    /\ shape_in = Unused /\ shape_out = Unused
    /\ utm_in = Unused /\ utm_out = Unused
    /\ cog_in = Unused /\ cog_out = Unused
    /\ req = Unused /\ GeoUnused /\ SharedUnused

StackBands ==
    /\ pc = "call"
    /\ Len(zip_in.tif_names) > 1
    /\ zip_out' = [stacked |-> sort_by_band_index(zip_in.tif_names)]
    /\ pc' = "done"
    /\ UNCHANGED <<clipped_image, feature_out, shape_in, shape_out, utm_in,
                   utm_out, cog_in, cog_out, req, geo, shared, gee, zip_in,
                   range_in, range_out>>

NextZip == StackBands

SpecZip == InitZip /\ [][NextZip]_vars

----------------------------------------------------------------------------
(* Claims on the band order *)

ZipStacked == pc = "done" /\ zip_out # Unused

\* C22: for every listing order of six files named after the bands, the
\* stacked raster has the bands in the order B, G, R, NIR, SWIR1, SWIR2,
\* and every file named after none of them comes after all matched bands.
Cex_C22_CanonicalBandOrder ==
    ZipStacked =>
        /\ SubSeq(zip_out.stacked, 1, 6) =
              [i \in 1..6 |-> BandFile(desired_order[i])]
        /\ \A i \in 7..Len(zip_out.stacked) : zip_out.stacked[i] = OtherFile

----------------------------------------------------------------------------
(* views.py: _GEE_READY, _GEE_LAST_ERROR, initialize_gee and the entry of
   fetch_gee_image, for the request threads of one process *)

\* requests started while the process runs
MaxRequests == 3

GeeError == [k |-> "error"]

\* initialize_gee, try branch: _GEE_READY = True, then _GEE_LAST_ERROR = None
try_set_ready(g) == [g EXCEPT !.READY = TRUE, !.last_init = "ok"]
try_clear_error(g) == [g EXCEPT !.LAST_ERROR = None]

\* initialize_gee, except branch: _GEE_READY = False, then
\* _GEE_LAST_ERROR = str(e)
except_set_ready(g) == [g EXCEPT !.READY = FALSE, !.last_init = "failed"]
except_set_error(g) == [g EXCEPT !.LAST_ERROR = GeeError]

\* the globals after the initialize_gee() call made when the module is loaded
AfterImport(ok) ==
    IF ok THEN try_clear_error(try_set_ready(
                  [READY |-> FALSE, LAST_ERROR |-> None, last_init |-> "none"]))
    ELSE except_set_error(except_set_ready(
                  [READY |-> FALSE, LAST_ERROR |-> None, last_init |-> "none"]))

GeeIdle == [pc |-> "idle", outcome |-> "none", tried |-> FALSE, saw_ready |-> FALSE]

InitGee ==
    /\ pc = "serving"
    /\ \E ok \in BOOLEAN :
        gee = [globals |-> AfterImport(ok),
               th |-> [t \in Threads |-> GeeIdle],
               started |-> 0, overlapped |-> FALSE, raised |-> FALSE]
    /\ zip_in = Unused /\ zip_out = Unused
    /\ range_in = Unused /\ range_out = Unused
    /\ clipped_image = Unused /\ feature_out = Unused
    /\ shape_in = Unused /\ shape_out = Unused
    /\ utm_in = Unused /\ utm_out = Unused
    /\ cog_in = Unused /\ cog_out = Unused
    /\ req = Unused /\ GeoUnused /\ SharedUnused

GeeUnchanged ==
    UNCHANGED <<pc, clipped_image, feature_out, shape_in, shape_out, utm_in,
                utm_out, cog_in, cog_out, req, geo, shared, zip_in, zip_out,
                range_in, range_out>>

\* fetch_gee_image is entered: if not _GEE_READY and not initialize_gee()
FetchEnter(t) ==
    /\ gee.th[t].pc = "idle"
    /\ gee.started < MaxRequests
    /\ gee' = [gee EXCEPT
            !.started = @ + 1,
            !.overlapped = @ \/ \E u \in Threads \ {t} : gee.th[u].pc # "idle",
            !.th[t] = [pc |-> IF gee.globals.READY THEN "query" ELSE "init",
                       outcome |-> "none", tried |-> FALSE,
                       saw_ready |-> gee.globals.READY]]
    /\ GeeUnchanged

\* initialize_gee: the credentials are resolved and ee.Initialize is called;
\* the first assignment of the branch taken
InitializeGee(t) ==
    /\ gee.th[t].pc = "init"
    /\ \E outcome \in {"ok", "failed"} :
        gee' = [gee EXCEPT
            !.globals = IF outcome = "ok" THEN try_set_ready(@)
                        ELSE except_set_ready(@),
            !.th[t].pc = "init_error",
            !.th[t].outcome = outcome,
            !.th[t].tried = TRUE]
    /\ GeeUnchanged

\* initialize_gee: the second assignment of the branch taken
InitializeGeeError(t) ==
    /\ gee.th[t].pc = "init_error"
    /\ gee' = [gee EXCEPT
            !.globals = IF gee.th[t].outcome = "ok" THEN try_clear_error(@)
                        ELSE except_set_error(@),
            !.th[t].pc = "init_return"]
    /\ GeeUnchanged

\* initialize_gee: return _GEE_READY, and the test in fetch_gee_image
InitializeGeeReturn(t) ==
    /\ gee.th[t].pc = "init_return"
    /\ gee' = [gee EXCEPT
            !.th[t].pc = IF gee.globals.READY THEN "query" ELSE "raise",
            !.th[t].saw_ready = gee.globals.READY]
    /\ GeeUnchanged

\* fetch_gee_image: the Earth Engine queries and the download
QueryAndDownload(t) ==
    /\ gee.th[t].pc = "query"
    /\ gee' = [gee EXCEPT !.th[t].pc = "idle"]
    /\ GeeUnchanged

\* fetch_gee_image: raise RuntimeError("Earth Engine initialization failed")
RaiseNotReady(t) ==
    /\ gee.th[t].pc = "raise"
    /\ gee' = [gee EXCEPT !.th[t].pc = "idle", !.raised = TRUE]
    /\ GeeUnchanged

NextGee ==
    \E t \in Threads :
        \/ FetchEnter(t)
        \/ InitializeGee(t)
        \/ InitializeGeeError(t)
        \/ InitializeGeeReturn(t)
        \/ QueryAndDownload(t)
        \/ RaiseNotReady(t)

SpecGee == InitGee /\ [][NextGee]_vars

----------------------------------------------------------------------------
(* Claims on the Earth Engine readiness state *)

GeeQuiet == \A t \in Threads : gee.th[t].pc = "idle"

GeeQuerying(t) == gee.th[t].pc = "query"

\* C27 as stated: _GEE_READY is true exactly when the most recent
\* initialize_gee call succeeded, _GEE_LAST_ERROR is None whenever _GEE_READY
\* is true once the calls have returned, and fetch_gee_image never queries or
\* downloads in a state where _GEE_READY is false.
Cex_C27_GeeReadiness ==
    /\ gee.globals.READY <=> gee.globals.last_init = "ok"
    /\ (GeeQuiet /\ gee.globals.READY) => gee.globals.LAST_ERROR = None
    /\ \A t \in Threads : GeeQuerying(t) => gee.globals.READY

\* What holds of the readiness state: _GEE_READY is true exactly when the
\* initialize_gee call that assigned it last succeeded; a request queries only
\* after it found _GEE_READY true, at its entry or when its own initialize_gee
\* returned, and raises only after it retried the initialization once; and
\* as long as no two requests of the process have overlapped,
\* _GEE_LAST_ERROR is None whenever _GEE_READY is true after the calls
\* returned, and no request queries in a state where _GEE_READY is false.
GeeReadinessWithoutOverlap ==
    /\ gee.globals.READY <=> gee.globals.last_init = "ok"
    /\ \A t \in Threads :
        /\ GeeQuerying(t) => gee.th[t].saw_ready
        /\ gee.th[t].pc = "raise" => gee.th[t].tried /\ ~gee.th[t].saw_ready
        /\ gee.th[t].pc = "init" => ~gee.th[t].tried
    /\ ~gee.overlapped =>
        /\ (GeeQuiet /\ gee.globals.READY) => gee.globals.LAST_ERROR = None
        /\ \A t \in Threads :
            /\ GeeQuerying(t) => gee.globals.READY
            /\ gee.th[t].pc = "raise" => gee.th[t].outcome = "failed"

\* after a request was refused because the initialization failed, a later
\* request retried the initialization, succeeded and has queried
GeeRetrySucceeded ==
    /\ ~gee.overlapped
    /\ gee.raised
    /\ GeeQuiet
    /\ gee.globals.READY
    /\ gee.globals.LAST_ERROR = None
    /\ gee.started >= 2
====
